---- MODULE Spec2Model ----
(***************************************************************************)
(* t2d-kit: the file-backed state store (models/state.py), the agent       *)
(* coordination record layered on it, the collection-level validators of   *)
(* ProcessedRecipe (models/processed_recipe.py), the framework resolution  *)
(* and compatibility check of DiagramSpecification (models/diagram.py) and *)
(* the validation of UserRecipe (models/user_recipe.py).                   *)
(*                                                                         *)
(* File contents are sequences of one-character strings; json.dumps and    *)
(* json.loads are modelled by a printer and a recursive-descent parser     *)
(* over those sequences, so a truncated or overwritten file parses (or     *)
(* fails to parse) for the reason it does in the program.                  *)
(***************************************************************************)
EXTENDS Integers, Sequences, FiniteSets, TLC

\* ------------------------------------------------------------------ bounds

\* Blob values are integers 1..MaxVal.
MaxVal == 1

\* A dependency list names at most MaxDeps agent ids.
MaxDeps == 2

\* completion_order is followed up to MaxOrder entries.
MaxOrder == 2

\* diagram_specs, diagram_refs and content_files hold at most MaxList entries.
MaxList == 2

\* ------------------------------------------------------------ JSON text

NL == "\n"
QUOTE == "\""

\* Keys of the state directory, and the keys the blobs (dicts) may carry.
Keys == {"k1"}
DictKeys == {"a", "b"}
KeyOrder == <<"a", "b">>

\* The dicts handed to write_state: string keys, integer values.
Blobs == UNION {[D -> 1..MaxVal] : D \in SUBSET DictKeys}

DigitChars == <<"0", "1", "2", "3", "4", "5", "6", "7", "8", "9">>

IsDigit(c) == \E i \in 1..10 : DigitChars[i] = c

DigitVal(c) == (CHOOSE i \in 1..10 : DigitChars[i] = c) - 1

RECURSIVE IntChars(_)
IntChars(n) ==
    IF n < 10 THEN <<DigitChars[n + 1]>>
    ELSE IntChars(n \div 10) \o <<DigitChars[(n % 10) + 1]>>

\* One "key": value item of json.dumps(..., indent=2): two spaces of indent.
ItemChars(k, v) == <<" ", " ", QUOTE, k, QUOTE, ":", " ">> \o IntChars(v)

RECURSIVE ItemsChars(_, _)
ItemsChars(d, ks) ==
    IF ks = <<>> THEN <<>>
    ELSE ItemChars(Head(ks), d[Head(ks)])
         \o (IF Len(ks) > 1 THEN <<",", NL>> ELSE <<>>)
         \o ItemsChars(d, Tail(ks))

PresentKeys(d) == SelectSeq(KeyOrder, LAMBDA k : k \in DOMAIN d)

\* json.dumps(data, indent=2, default=str) of a dict.
Dumps(d) ==
    IF DOMAIN d = {} THEN <<"{", "}">>
    ELSE <<"{", NL>> \o ItemsChars(d, PresentKeys(d)) \o <<NL, "}">>

IsWs(c) == c \in {" ", NL}

RECURSIVE SkipWs(_, _)
SkipWs(s, i) == IF i <= Len(s) /\ IsWs(s[i]) THEN SkipWs(s, i + 1) ELSE i

ParseFail == [ok |-> FALSE, val |-> <<>>, pos |-> 0]

\* A JSON number: 0, or a non-zero digit followed by digits.
RECURSIVE ParseDigits(_, _, _)
ParseDigits(s, i, acc) ==
    IF i <= Len(s) /\ IsDigit(s[i])
    THEN ParseDigits(s, i + 1, acc * 10 + DigitVal(s[i]))
    ELSE [ok |-> TRUE, val |-> acc, pos |-> i]

ParseInt(s, i) ==
    IF i > Len(s) \/ ~IsDigit(s[i]) THEN ParseFail
    ELSE IF s[i] = "0" THEN [ok |-> TRUE, val |-> 0, pos |-> i + 1]
    ELSE ParseDigits(s, i, 0)

\* A JSON string of plain characters: no quote and no control character inside.
RECURSIVE ParseStringBody(_, _, _)
ParseStringBody(s, i, acc) ==
    IF i > Len(s) \/ s[i] = NL THEN ParseFail
    ELSE IF s[i] = QUOTE THEN [ok |-> TRUE, val |-> acc, pos |-> i + 1]
    ELSE ParseStringBody(s, i + 1, acc \o s[i])

ParseString(s, i) ==
    IF i > Len(s) \/ s[i] # QUOTE THEN ParseFail
    ELSE ParseStringBody(s, i + 1, "")

Put(d, k, v) == [x \in (DOMAIN d) \cup {k} |-> IF x = k THEN v ELSE d[x]]

\* The members of an object after "{" and white space, at a key.
RECURSIVE ParseMembers(_, _, _)
ParseMembers(s, i, acc) ==
    LET key == ParseString(s, i) IN
    IF ~key.ok THEN ParseFail
    ELSE
      LET c == SkipWs(s, key.pos) IN
      IF c > Len(s) \/ s[c] # ":" THEN ParseFail
      ELSE
        LET v == ParseInt(s, SkipWs(s, c + 1)) IN
        IF ~v.ok THEN ParseFail
        ELSE
          LET e == SkipWs(s, v.pos)
              acc2 == Put(acc, key.val, v.val)
          IN
          IF e > Len(s) THEN ParseFail
          ELSE IF s[e] = "}" THEN [ok |-> TRUE, val |-> acc2, pos |-> e + 1]
          ELSE IF s[e] = "," THEN ParseMembers(s, SkipWs(s, e + 1), acc2)
          ELSE ParseFail

ParseObject(s, i) ==
    IF i > Len(s) \/ s[i] # "{" THEN ParseFail
    ELSE
      LET j == SkipWs(s, i + 1) IN
      IF j > Len(s) THEN ParseFail
      ELSE IF s[j] = "}" THEN [ok |-> TRUE, val |-> <<>>, pos |-> j + 1]
      ELSE ParseMembers(s, j, <<>>)

\* json.loads(text): one value between optional white space, nothing after
\* it. ok = FALSE is json.JSONDecodeError. Every text of the model starts
\* as the dump of a dict of integers, so the value is an object of integers.
Loads(s) ==
    LET r == ParseObject(s, SkipWs(s, 1)) IN
    IF r.ok /\ SkipWs(s, r.pos) > Len(s)
    THEN [ok |-> TRUE, val |-> r.val]
    ELSE [ok |-> FALSE, val |-> <<>>]

\* str.splitlines(): the text cut at its line breaks, no empty last line.
RECURSIVE SplitLines(_, _, _)
SplitLines(s, i, cur) ==
    IF i > Len(s) THEN (IF cur = <<>> THEN <<>> ELSE <<cur>>)
    ELSE IF s[i] = NL THEN <<cur>> \o SplitLines(s, i + 1, <<>>)
    ELSE SplitLines(s, i + 1, Append(cur, s[i]))

\* "\n".join(lines[:n])
RECURSIVE JoinLines(_, _)
JoinLines(lines, n) ==
    IF n = 0 THEN <<>>
    ELSE IF n = 1 THEN lines[1]
    ELSE JoinLines(lines, n - 1) \o <<NL>> \o lines[n]

\* ------------------------------------------------------------ the store

VARIABLES
    primary,    \* key -> the file <state_dir>/<key>.json
    backup,     \* key -> the file <state_dir>/<key>.json.backup
    result,     \* the last call and what it returned
    prov,       \* key -> who last shaped the primary: none, store, torn, garbled
    orig,       \* key -> the text the store wrote, kept while the primary is torn
    wlog,       \* key -> values of the trailing run of write_state_with_backup calls (last two)
    wbhist,     \* key -> none | first_fresh | other: the write_state_with_backup calls so far
    proc,       \* worker -> the call a worker process is in, step by step
    agents_working,     \* AgentCoordinationState: agent_id -> status
    completion_order,   \* AgentCoordinationState: agent ids in the order they completed
    dependencies,       \* AgentCoordinationState: agent_id -> list of agent ids
    ready_ret,          \* what the last get_ready_agents() returned
    recipe,             \* the raw ProcessedRecipe handed to validation
    outcome,            \* what the last validation of it reported
    spec_in,            \* the raw DiagramSpecification handed to validation
    spec_out,           \* what validating it gave
    spec_again,         \* what a second validation gave: of the same input, or of the dump
    intent_in,          \* the raw UserRecipe handed to validation
    intent_out,         \* what validating it gave
    intent_again,       \* what validating the model_dump() of the validated recipe gave
    state_dir,          \* the state directory: file name -> text, of the files in it
    kv,                 \* the key-value map the calls on the directory describe
    kvret,              \* the last call on the directory and what it returned
    diagram_refs,       \* ProcessedRecipe.diagram_refs: id -> status of the DiagramReference
    ref_ret,            \* the last call on a DiagramReference and how it ended
    generated_at,       \* the generated_at handed to ProcessedRecipe validation
    gen_out,            \* what validate_generation_time gave, and the clock it read
    recipe_dir,         \* the recipe directory: recipe name -> the recipe in <name>.yaml
    tool_ret,           \* the last MCP tool call and its response
    calls,              \* the tool calls issued on the event loop and not yet run
    processing,         \* the files <recipe>.processing.json and .processing.backup.json
    upd                 \* worker -> the update_diagram_status call it is in, step by step

store == <<primary, backup, result, prov, orig, wlog, wbhist, proc>>
coord == <<agents_working, completion_order, dependencies, ready_ret>>
plan == <<recipe, outcome>>
docs == <<spec_in, spec_out, spec_again, intent_in, intent_out, intent_again,
          state_dir, kv, kvret>>
tools == <<diagram_refs, ref_ret, generated_at, gen_out, recipe_dir, tool_ret, calls,
           processing, upd>>
vars == <<store, coord, plan, docs, tools>>

\* What the calls of the sequential history record; the step-wise worker
\* processes below leave it alone.
history == <<result, prov, orig, wlog, wbhist>>

Workers == {"w1", "w2"}

NoFile == [ex |-> FALSE, txt |-> <<>>]

\* Path.write_text(text), run to completion: the file holds exactly text.
WriteText(text) == [ex |-> TRUE, txt |-> text]

RetNone == [kind |-> "none", val |-> <<>>]
RetValue(v) == [kind |-> "value", val |-> v]
RetRaise == [kind |-> "raise", val |-> <<>>]
RetBool(b) == [kind |-> IF b THEN "true" ELSE "false", val |-> <<>>]

\* Mutant: a file that does not parse reads as no file.
ReadResult_Swallows(pf) ==
    IF pf.ex
    THEN (IF Loads(pf.txt).ok THEN RetValue(Loads(pf.txt).val) ELSE RetNone)
    ELSE RetNone

\* read_state: the parsed primary, None when there is no file; a file that
\* does not parse raises json.JSONDecodeError to the caller.
ReadResult(pf) ==
    IF pf.ex
    THEN (IF Loads(pf.txt).ok THEN RetValue(Loads(pf.txt).val) ELSE RetRaise)
    ELSE RetNone

\* Mutant: the last parse error leaves the loop instead of being swallowed.
RECURSIVE PartialRecovery_Raises(_, _)
PartialRecovery_Raises(lines, i) ==
    IF i = 0 THEN RetRaise
    ELSE IF Loads(JoinLines(lines, i)).ok
         THEN RetValue(Loads(JoinLines(lines, i)).val)
         ELSE PartialRecovery_Raises(lines, i - 1)

\* for i in range(len(lines), 0, -1): try json.loads("\n".join(lines[:i]))
RECURSIVE PartialRecovery(_, _)
PartialRecovery(lines, i) ==
    IF i = 0 THEN RetNone
    ELSE IF Loads(JoinLines(lines, i)).ok
         THEN RetValue(Loads(JoinLines(lines, i)).val)
         ELSE PartialRecovery(lines, i - 1)

BackupUsable(bf) == bf.ex /\ Loads(bf.txt).ok

\* Mutant: the line-prefix repair is tried before the backup.
RecoverResult_RepairFirst(pf, bf) ==
    IF ~pf.ex THEN RetNone
    ELSE IF Loads(pf.txt).ok THEN RetValue(Loads(pf.txt).val)
    ELSE LET lines == SplitLines(pf.txt, 1, <<>>)
             part == PartialRecovery(lines, Len(lines))
         IN IF part.kind = "value" THEN part
            ELSE IF BackupUsable(bf) THEN RetValue(Loads(bf.txt).val)
            ELSE RetNone

\* recover_from_error: the primary, else the backup, else the longest
\* line-prefix of the primary that parses, else None.
RecoverResult(pf, bf) ==
    IF ~pf.ex THEN RetNone
    ELSE IF Loads(pf.txt).ok THEN RetValue(Loads(pf.txt).val)
    ELSE IF BackupUsable(bf) THEN RetValue(Loads(bf.txt).val)
    ELSE LET lines == SplitLines(pf.txt, 1, <<>>)
         IN PartialRecovery(lines, Len(lines))

\* Mutant: the copy is made only where a backup already exists.
BackupAfterCopy_OnlyRefresh(pf, bf) == IF pf.ex /\ bf.ex THEN WriteText(pf.txt) ELSE bf

\* if state_file.exists(): backup_file.write_text(state_file.read_text())
BackupAfterCopy(pf, bf) == IF pf.ex THEN WriteText(pf.txt) ELSE bf

LastTwo(s) == IF Len(s) > 2 THEN SubSeq(s, Len(s) - 1, Len(s)) ELSE s

\* A worker process between calls; pre is the parse of the primary its
\* last call found, buf the text that call read for the backup copy.
IdleProc ==
    [pc |-> "idle", op |-> "none", key |-> "", data |-> <<>>,
     buf |-> <<>>, pre |-> [ok |-> FALSE, val |-> <<>>]]

\* A raw ProcessedRecipe, as far as the collection-level checks read it: the
\* ids of diagram_specs and of diagram_refs in list order, and of every
\* content file its id, its path and the set of its diagram_refs.
NoRecipe == [specs |-> <<>>, refs |-> <<>>, files |-> <<>>]

NotValidated == [call |-> "none", ok |-> FALSE, errors |-> <<>>, warnings |-> <<>>]

Called(op, k, ret) == [op |-> op, key |-> k, ret |-> ret]

\* No document handed to validation yet, and no validation made.
NoDocument == [given |-> FALSE]
NoOutcome == [call |-> "none", ok |-> FALSE]

\* The state directory as StateManager's constructor leaves it: empty.
EmptyDir == [n \in {} |-> <<>>]

\* An optional field: a value, or None.
Some(v) == [some |-> TRUE, val |-> v]
Absent == [some |-> FALSE, val |-> <<>>]

InitDocs ==
    /\ spec_in = NoDocument
    /\ spec_out = NoOutcome
    /\ spec_again = NoOutcome
    /\ intent_in = NoDocument
    /\ intent_out = NoOutcome
    /\ intent_again = NoOutcome
    /\ state_dir = EmptyDir
    /\ kv = [k \in {} |-> <<>>]
    /\ kvret = [op |-> "init", mgr |-> "", key |-> <<>>, ret |-> RetNone, was |-> FALSE]

\* No DiagramReference built yet and no call made on one.
NoRefs == [d \in {} |-> ""]
NoRefCall == [op |-> "init", id |-> "", status |-> "", raised |-> FALSE]

\* No MCP tool called yet.
NoResponse == [tool |-> "none", path |-> <<>>, success |-> FALSE, error_type |-> "none",
               raised |-> FALSE, before |-> EmptyDir]

\* No processing state file and no backup of it.
NoProcessing == [state_file |-> NoFile, backup_file |-> NoFile]

\* A worker that is in no update_diagram_status call.
IdleUpdate == [pc |-> "idle", diagram_id |-> "", status |-> "", state |-> <<>>]

InitTools ==
    /\ diagram_refs = NoRefs
    /\ ref_ret = NoRefCall
    /\ generated_at = NoDocument
    /\ gen_out = NoOutcome
    /\ recipe_dir = EmptyDir
    /\ tool_ret = NoResponse
    /\ calls = <<>>
    /\ processing = NoProcessing
    /\ upd = [w \in Workers |-> IdleUpdate]

\* The store, the coordination record and the documents before any call.
InitBase ==
    /\ primary = [k \in Keys |-> NoFile]
    /\ backup = [k \in Keys |-> NoFile]
    /\ result = Called("init", "", RetNone)
    /\ prov = [k \in Keys |-> "none"]
    /\ orig = [k \in Keys |-> <<>>]
    /\ wlog = [k \in Keys |-> <<>>]
    /\ wbhist = [k \in Keys |-> "none"]
    /\ proc = [w \in Workers |-> IdleProc]
    /\ agents_working = <<>>
    /\ completion_order = <<>>
    /\ dependencies = <<>>
    /\ ready_ret = {}
    /\ recipe = NoRecipe
    /\ outcome = NotValidated
    /\ InitDocs

Init ==
    /\ primary = [k \in Keys |-> NoFile]
    /\ backup = [k \in Keys |-> NoFile]
    /\ result = Called("init", "", RetNone)
    /\ prov = [k \in Keys |-> "none"]
    /\ orig = [k \in Keys |-> <<>>]
    /\ wlog = [k \in Keys |-> <<>>]
    /\ wbhist = [k \in Keys |-> "none"]
    /\ proc = [w \in Workers |-> IdleProc]
    /\ agents_working = <<>>
    /\ completion_order = <<>>
    /\ dependencies = <<>>
    /\ ready_ret = {}
    /\ recipe = NoRecipe
    /\ outcome = NotValidated
    /\ InitDocs
    /\ InitTools

write_state(k, d) ==
    /\ primary' = [primary EXCEPT ![k] = WriteText(Dumps(d))]
    /\ result' = Called("write_state", k, RetNone)
    /\ prov' = [prov EXCEPT ![k] = "store"]
    /\ orig' = [orig EXCEPT ![k] = <<>>]
    /\ wlog' = [wlog EXCEPT ![k] = <<>>]
    /\ UNCHANGED <<backup, wbhist, proc, coord, plan, docs, tools>>

read_state(k) ==
    /\ result' = Called("read_state", k, ReadResult(primary[k]))
    /\ UNCHANGED <<primary, backup, prov, orig, wlog, wbhist, proc, coord, plan, docs, tools>>

delete_state(k) ==
    /\ primary' = [primary EXCEPT ![k] = NoFile]
    /\ result' = Called("delete_state", k, RetBool(primary[k].ex))
    /\ prov' = [prov EXCEPT ![k] = "none"]
    /\ orig' = [orig EXCEPT ![k] = <<>>]
    /\ wlog' = [wlog EXCEPT ![k] = <<>>]
    /\ UNCHANGED <<backup, wbhist, proc, coord, plan, docs, tools>>

recover_from_error(k) ==
    /\ result' = Called("recover_from_error", k, RecoverResult(primary[k], backup[k]))
    /\ UNCHANGED <<primary, backup, prov, orig, wlog, wbhist, proc, coord, plan, docs, tools>>

write_state_with_backup(k, d) ==
    /\ backup' = [backup EXCEPT ![k] = BackupAfterCopy(primary[k], backup[k])]
    /\ primary' = [primary EXCEPT ![k] = WriteText(Dumps(d))]
    /\ result' = Called("write_state_with_backup", k, RetNone)
    /\ prov' = [prov EXCEPT ![k] = "store"]
    /\ orig' = [orig EXCEPT ![k] = <<>>]
    /\ wlog' = [wlog EXCEPT ![k] = LastTwo(Append(wlog[k], d))]
    /\ wbhist' = [wbhist EXCEPT ![k] =
                    IF wbhist[k] = "none" /\ ~primary[k].ex
                    THEN "first_fresh" ELSE "other"]
    /\ UNCHANGED <<proc, coord, plan, docs, tools>>

\* The environment: a file the store wrote is cut at a byte boundary.
Truncate(k, n) ==
    /\ primary[k].ex /\ prov[k] = "store"
    /\ n < Len(primary[k].txt)
    /\ primary' = [primary EXCEPT ![k] = WriteText(SubSeq(primary[k].txt, 1, n))]
    /\ result' = Called("truncate", k, RetNone)
    /\ prov' = [prov EXCEPT ![k] = "torn"]
    /\ orig' = [orig EXCEPT ![k] = primary[k].txt]
    /\ wlog' = [wlog EXCEPT ![k] = <<>>]
    /\ UNCHANGED <<backup, wbhist, proc, coord, plan, docs, tools>>

\* The environment: a line that is no JSON follows the text the store wrote.
GarbageLine == <<NL, "{", "x">>

AppendGarbage(k) ==
    /\ primary[k].ex /\ prov[k] = "store"
    /\ primary' = [primary EXCEPT ![k] = WriteText(primary[k].txt \o GarbageLine)]
    /\ result' = Called("garble", k, RetNone)
    /\ prov' = [prov EXCEPT ![k] = "garbled"]
    /\ orig' = [orig EXCEPT ![k] = <<>>]
    /\ wlog' = [wlog EXCEPT ![k] = <<>>]
    /\ UNCHANGED <<backup, wbhist, proc, coord, plan, docs, tools>>

Next ==
    \E k \in Keys :
        \/ \E d \in Blobs : write_state(k, d)
        \/ read_state(k)
        \/ delete_state(k)
        \/ recover_from_error(k)
        \/ \E d \in Blobs : write_state_with_backup(k, d)
        \/ \E n \in 0..Len(primary[k].txt) : Truncate(k, n)
        \/ AppendGarbage(k)

Spec == Init /\ [][Next]_vars

\* ------------------------------------------- the calls, step by step
\* Path.write_text is open(path, "w") and then one write at offset 0 of the
\* process's own file descriptor: the open truncates the file, the write
\* lays the text over whatever the file holds by then.

OpenTruncate == [ex |-> TRUE, txt |-> <<>>]

Overwrite(cur, text) == text \o SubSeq(cur, Len(text) + 1, Len(cur))

WriteAtStart(f, text) == [ex |-> TRUE, txt |-> Overwrite(f.txt, text)]

ParseOf(f) == IF f.ex THEN Loads(f.txt) ELSE [ok |-> FALSE, val |-> <<>>]

call_write_state(w, k, d) ==
    /\ proc[w].pc = "idle"
    /\ proc' = [proc EXCEPT ![w] =
                  [pc |-> "ws_open", op |-> "write_state", key |-> k, data |-> d,
                   buf |-> <<>>, pre |-> ParseOf(primary[k])]]
    /\ UNCHANGED <<primary, backup, history, coord, plan, docs, tools>>

call_write_state_with_backup(w, k, d) ==
    /\ proc[w].pc = "idle"
    /\ proc' = [proc EXCEPT ![w] =
                  [pc |-> "wb_exists", op |-> "write_state_with_backup", key |-> k,
                   data |-> d, buf |-> <<>>, pre |-> ParseOf(primary[k])]]
    /\ UNCHANGED <<primary, backup, history, coord, plan, docs, tools>>

\* Mutant: the new state is written without the copy being made first.
wb_exists_NoBackup(w) ==
    /\ proc[w].pc = "wb_exists"
    /\ proc' = [proc EXCEPT ![w].pc = "ws_open"]
    /\ UNCHANGED <<primary, backup, history, coord, plan, docs, tools>>

\* if state_file.exists(): ... state_file.read_text()
wb_exists(w) ==
    /\ proc[w].pc = "wb_exists"
    /\ proc' = [proc EXCEPT ![w] =
                  IF primary[proc[w].key].ex
                  THEN [@ EXCEPT !.pc = "wb_open", !.buf = primary[proc[w].key].txt]
                  ELSE [@ EXCEPT !.pc = "ws_open"]]
    /\ UNCHANGED <<primary, backup, history, coord, plan, docs, tools>>

\* backup_file.write_text(...): the open
wb_open(w) ==
    /\ proc[w].pc = "wb_open"
    /\ backup' = [backup EXCEPT ![proc[w].key] = OpenTruncate]
    /\ proc' = [proc EXCEPT ![w].pc = "wb_write"]
    /\ UNCHANGED <<primary, history, coord, plan, docs, tools>>

\* backup_file.write_text(...): the write
wb_write(w) ==
    /\ proc[w].pc = "wb_write"
    /\ backup' = [backup EXCEPT ![proc[w].key] = WriteAtStart(@, proc[w].buf)]
    /\ proc' = [proc EXCEPT ![w].pc = "ws_open"]
    /\ UNCHANGED <<primary, history, coord, plan, docs, tools>>

\* write_state: state_file.write_text(json.dumps(...)): the open
ws_open(w) ==
    /\ proc[w].pc = "ws_open"
    /\ primary' = [primary EXCEPT ![proc[w].key] = OpenTruncate]
    /\ proc' = [proc EXCEPT ![w].pc = "ws_write"]
    /\ UNCHANGED <<backup, history, coord, plan, docs, tools>>

\* write_state: state_file.write_text(json.dumps(...)): the write
ws_write(w) ==
    /\ proc[w].pc = "ws_write"
    /\ primary' = [primary EXCEPT ![proc[w].key] = WriteAtStart(@, Dumps(proc[w].data))]
    /\ proc' = [proc EXCEPT ![w].pc = "idle"]
    /\ UNCHANGED <<backup, history, coord, plan, docs, tools>>

\* The process dies inside a call; inside a write, after any number n of
\* the characters reached the file.
Crash(w, n) ==
    /\ proc[w].pc \notin {"idle", "crashed"}
    /\ proc' = [proc EXCEPT ![w].pc = "crashed"]
    /\ IF proc[w].pc = "wb_write"
       THEN /\ n <= Len(proc[w].buf)
            /\ backup' = [backup EXCEPT ![proc[w].key] =
                            WriteAtStart(@, SubSeq(proc[w].buf, 1, n))]
            /\ UNCHANGED primary
       ELSE IF proc[w].pc = "ws_write"
       THEN /\ n <= Len(Dumps(proc[w].data))
            /\ primary' = [primary EXCEPT ![proc[w].key] =
                             WriteAtStart(@, SubSeq(Dumps(proc[w].data), 1, n))]
            /\ UNCHANGED backup
       ELSE /\ n = 0
            /\ UNCHANGED <<primary, backup>>
    /\ UNCHANGED <<history, coord, plan, docs, tools>>

\* A new process takes the dead one's place.
Restart(w) ==
    /\ proc[w].pc = "crashed"
    /\ proc' = [proc EXCEPT ![w].pc = "idle"]
    /\ UNCHANGED <<primary, backup, history, coord, plan, docs, tools>>

\* No text json.dumps gives for a blob is longer than this.
MaxTextLen == Len(Dumps([k \in DictKeys |-> MaxVal]))

\* One writer of write_state_with_backup that may die at any step.
NextCrash ==
    \E w \in {"w1"} :
        \/ \E k \in Keys, d \in Blobs : call_write_state_with_backup(w, k, d)
        \/ wb_exists(w)
        \/ wb_open(w)
        \/ wb_write(w)
        \/ ws_open(w)
        \/ ws_write(w)
        \/ \E n \in 0..MaxTextLen : Crash(w, n)
        \/ Restart(w)

SpecCrash == Init /\ [][NextCrash]_vars

\* Several workers in write_state at once, their steps interleaved.
NextConc ==
    \E w \in Workers :
        \/ \E k \in Keys, d \in Blobs : call_write_state(w, k, d)
        \/ ws_open(w)
        \/ ws_write(w)

SpecConc == Init /\ [][NextConc]_vars

\* ------------------------------------------- AgentCoordinationState

Agents == {"a1", "a2"}
Statuses == {"pending", "running", "complete", "failed"}

RECURSIVE SeqsUpTo(_, _)
SeqsUpTo(S, n) ==
    IF n = 0 THEN {<<>>}
    ELSE LET shorter == SeqsUpTo(S, n - 1)
         IN shorter \cup {Append(q, x) : q \in {t \in shorter : Len(t) = n - 1}, x \in S}

Elems(q) == {q[i] : i \in 1..Len(q)}

register_agent(agent_id, status) ==
    /\ agents_working' = Put(agents_working, agent_id, status)
    /\ UNCHANGED <<completion_order, dependencies, ready_ret, store, plan, docs, tools>>

update_agent_status(agent_id, status) ==
    /\ status = "complete" => Len(completion_order) < MaxOrder
    /\ IF agent_id \in DOMAIN agents_working
       THEN /\ agents_working' = Put(agents_working, agent_id, status)
            /\ completion_order' =
                  IF status = "complete"
                  THEN Append(completion_order, agent_id)
                  ELSE completion_order
       ELSE UNCHANGED <<agents_working, completion_order>>
    /\ UNCHANGED <<dependencies, ready_ret, store, plan, docs, tools>>

set_dependencies(agent_id, deps) ==
    /\ dependencies' = Put(dependencies, agent_id, deps)
    /\ UNCHANGED <<agents_working, completion_order, ready_ret, store, plan, docs, tools>>

\* Mutant: a dependency that was never registered does not hold the agent back.
can_agent_start_SkipsUnregistered(agent_id) ==
    IF agent_id \notin DOMAIN dependencies THEN TRUE
    ELSE \A i \in 1..Len(dependencies[agent_id]) :
            LET dep == dependencies[agent_id][i]
            IN ~(dep \in DOMAIN agents_working /\ agents_working[dep] # "complete")

\* Mutant: the loop over the dependencies ends in return False.
can_agent_start_ReturnsFalse(agent_id) ==
    IF agent_id \notin DOMAIN dependencies THEN TRUE ELSE FALSE

can_agent_start(agent_id) ==
    IF agent_id \notin DOMAIN dependencies THEN TRUE
    ELSE \A i \in 1..Len(dependencies[agent_id]) :
            LET dep == dependencies[agent_id][i]
            IN ~(dep \notin DOMAIN agents_working \/ agents_working[dep] # "complete")

\* The agents of the returned list (it follows the order of registration).
ReadyAgents ==
    {a \in DOMAIN agents_working :
        agents_working[a] = "pending" /\ can_agent_start(a)}

get_ready_agents ==
    /\ ready_ret' = ReadyAgents
    /\ UNCHANGED <<agents_working, completion_order, dependencies, store, plan, docs, tools>>

NextCoord ==
    \/ \E a \in Agents, st \in Statuses : register_agent(a, st)
    \/ \E a \in Agents, st \in Statuses : update_agent_status(a, st)
    \/ \E a \in Agents, deps \in SeqsUpTo(Agents, MaxDeps) : set_dependencies(a, deps)
    \/ get_ready_agents

SpecCoord == Init /\ [][NextCoord]_vars

\* A scheduler on a record whose agents are registered as pending and whose
\* dependencies are set before it runs: it starts an agent that
\* get_ready_agents() returns, and marks a started agent complete.
start_agent(agent_id) ==
    /\ agent_id \in ReadyAgents
    /\ update_agent_status(agent_id, "running")

finish_agent(agent_id) ==
    /\ agent_id \in DOMAIN agents_working
    /\ agents_working[agent_id] = "running"
    /\ update_agent_status(agent_id, "complete")

\* is_all_complete()
is_all_complete == \A a \in DOMAIN agents_working : agents_working[a] = "complete"

InitCoordRun ==
    /\ primary = [k \in Keys |-> NoFile]
    /\ backup = [k \in Keys |-> NoFile]
    /\ result = Called("init", "", RetNone)
    /\ prov = [k \in Keys |-> "none"]
    /\ orig = [k \in Keys |-> <<>>]
    /\ wlog = [k \in Keys |-> <<>>]
    /\ wbhist = [k \in Keys |-> "none"]
    /\ proc = [w \in Workers |-> IdleProc]
    /\ agents_working \in UNION {[R -> {"pending"}] : R \in SUBSET Agents}
    /\ completion_order = <<>>
    /\ dependencies \in UNION {[D -> SeqsUpTo(Agents, MaxDeps)] : D \in SUBSET Agents}
    /\ ready_ret = {}
    /\ recipe = NoRecipe
    /\ outcome = NotValidated
    /\ InitDocs
    /\ InitTools

NextCoordRun ==
    \/ \E a \in Agents : start_agent(a)
    \/ \E a \in Agents : finish_agent(a)

SpecCoordRun == InitCoordRun /\ [][NextCoordRun]_vars

\* Every agent that is ready is eventually started, and every started
\* agent is eventually marked complete.
SpecCoordFair ==
    /\ SpecCoordRun
    /\ \A a \in Agents : WF_vars(start_agent(a)) /\ WF_vars(finish_agent(a))

\* ------------------------------------------------- ProcessedRecipe

DiagramIds == {"d1", "d2", "flow-099"}
ContentIds == {"c1", "c2"}
ContentPaths == <<"docs/a.md", "docs/b.md", "docs/c.md", "docs/d.md">>

\* A content file's diagram_refs: none, or one diagram id.
RefSets == {{}} \cup {{d} : d \in DiagramIds}

RECURSIVE FileLists(_)
FileLists(n) ==
    IF n = 0 THEN {<<>>}
    ELSE LET shorter == FileLists(n - 1)
         IN shorter \cup
            {Append(q, [id |-> c, path |-> ContentPaths[n], refs |-> r]) :
                q \in {t \in shorter : Len(t) = n - 1}, c \in ContentIds, r \in RefSets}

RawRecipes ==
    [specs : SeqsUpTo(DiagramIds, MaxList),
     refs : SeqsUpTo(DiagramIds, MaxList),
     files : FileLists(MaxList)]

Error(kind, loc, missing, extra, invalid) ==
    [kind |-> kind, loc |-> loc, missing |-> missing, extra |-> extra, invalid |-> invalid]

\* Field(min_length=1) on content_files, diagram_specs and diagram_refs:
\* pydantic reports every such field, and runs no model validator after one.
TooShort(raw) ==
    (IF raw.files = <<>> THEN <<Error("too_short", "content_files", {}, {}, {})>> ELSE <<>>)
    \o (IF raw.specs = <<>> THEN <<Error("too_short", "diagram_specs", {}, {}, {})>> ELSE <<>>)
    \o (IF raw.refs = <<>> THEN <<Error("too_short", "diagram_refs", {}, {}, {})>> ELSE <<>>)

\* Mutant: the extra references are reported only when none is missing.
validate_diagram_consistency_Elif(raw) ==
    LET spec_ids == Elems(raw.specs)
        ref_ids == Elems(raw.refs)
    IN IF spec_ids # ref_ids
       THEN <<Error("consistency", "",
                    spec_ids \ ref_ids,
                    IF spec_ids \ ref_ids = {} THEN ref_ids \ spec_ids ELSE {}, {})>>
       ELSE <<>>

\* The ValueError raised, if any: "Missing diagram references: {...}; Extra
\* diagram references: {...}", each part present when its set is not empty.
validate_diagram_consistency(raw) ==
    LET spec_ids == Elems(raw.specs)
        ref_ids == Elems(raw.refs)
    IN IF spec_ids # ref_ids
       THEN <<Error("consistency", "", spec_ids \ ref_ids, ref_ids \ spec_ids, {})>>
       ELSE <<>>

\* The ValueError raised, if any: at the first content file with a
\* reference that no diagram spec carries.
RECURSIVE FirstInvalidFile(_, _, _)
FirstInvalidFile(files, valid_diagram_ids, i) ==
    IF i > Len(files) THEN <<>>
    ELSE IF files[i].refs \ valid_diagram_ids # {}
         THEN <<Error("content_refs", files[i].path, {}, {},
                      files[i].refs \ valid_diagram_ids)>>
         ELSE FirstInvalidFile(files, valid_diagram_ids, i + 1)

validate_content_diagram_refs(raw) == FirstInvalidFile(raw.files, Elems(raw.specs), 1)

Validated(call, errors, warnings) ==
    [call |-> call, ok |-> errors = <<>>, errors |-> errors, warnings |-> warnings]

\* ProcessedRecipe.model_validate: the fields, then the model validators in
\* the order the class declares them, each run only when all before passed.
ModelValidate(raw) ==
    IF TooShort(raw) # <<>> THEN TooShort(raw)
    ELSE IF validate_diagram_consistency(raw) # <<>> THEN validate_diagram_consistency(raw)
    ELSE validate_content_diagram_refs(raw)

model_validate ==
    /\ outcome' = Validated("model_validate", ModelValidate(recipe), <<>>)
    /\ UNCHANGED <<recipe, store, coord, docs, tools>>

\* validate_processed_recipe_file on a file that exists and is well-formed
\* YAML: the pydantic errors as one "Validation error", else its own checks.
RECURSIVE InvalidRefWarnings(_, _, _)
InvalidRefWarnings(files, spec_ids, i) ==
    IF i > Len(files) THEN <<>>
    ELSE (IF files[i].refs \ spec_ids # {}
          THEN <<Error("content_refs", files[i].path, {}, {}, files[i].refs \ spec_ids)>>
          ELSE <<>>)
         \o InvalidRefWarnings(files, spec_ids, i + 1)

Referenced(files) == UNION {files[i].refs : i \in 1..Len(files)}

FileCheckErrors(raw) ==
    LET spec_ids == Elems(raw.specs)
        ref_ids == Elems(raw.refs)
    IN (IF spec_ids \ ref_ids # {}
        THEN <<Error("consistency", "", spec_ids \ ref_ids, {}, {})>> ELSE <<>>)
       \o (IF ref_ids \ spec_ids # {}
           THEN <<Error("consistency", "", {}, ref_ids \ spec_ids, {})>> ELSE <<>>)

FileCheckWarnings(raw) ==
    LET spec_ids == Elems(raw.specs)
    IN InvalidRefWarnings(raw.files, spec_ids, 1)
       \o (IF spec_ids \ Referenced(raw.files) # {}
           THEN <<Error("orphaned", "", {}, {}, spec_ids \ Referenced(raw.files))>>
           ELSE <<>>)

validate_processed_recipe_file ==
    /\ outcome' =
          IF ModelValidate(recipe) # <<>>
          THEN Validated("validate_processed_recipe_file", ModelValidate(recipe), <<>>)
          ELSE Validated("validate_processed_recipe_file",
                         FileCheckErrors(recipe), FileCheckWarnings(recipe))
    /\ UNCHANGED <<recipe, store, coord, docs, tools>>

InitRecipe ==
    /\ primary = [k \in Keys |-> NoFile]
    /\ backup = [k \in Keys |-> NoFile]
    /\ result = Called("init", "", RetNone)
    /\ prov = [k \in Keys |-> "none"]
    /\ orig = [k \in Keys |-> <<>>]
    /\ wlog = [k \in Keys |-> <<>>]
    /\ wbhist = [k \in Keys |-> "none"]
    /\ proc = [w \in Workers |-> IdleProc]
    /\ agents_working = <<>>
    /\ completion_order = <<>>
    /\ dependencies = <<>>
    /\ ready_ret = {}
    /\ recipe \in RawRecipes
    /\ outcome = NotValidated
    /\ InitDocs
    /\ InitTools

NextRecipe ==
    \/ model_validate
    \/ validate_processed_recipe_file

SpecRecipe == InitRecipe /\ [][NextRecipe]_vars

\* ------------------------------------------------- DiagramSpecification

\* A list of output formats handed to validation is followed up to
\* MaxFormats entries.
MaxFormats == 2

\* Field value None.
None == "None"

MermaidCoreTypes ==
    {"flowchart", "sequence", "class", "state", "erd", "journey", "gantt", "pie",
     "quadrant", "requirement", "gitgraph", "mindmap", "timeline", "sankey",
     "xy_chart", "block", "packet", "architecture", "kanban"}

C4Types == {"c4_context", "c4_container", "c4_component", "c4_deployment", "c4_landscape"}

PlantumlSpecificTypes ==
    {"plantuml_usecase", "plantuml_activity", "plantuml_component",
     "plantuml_deployment", "plantuml_object", "plantuml_package",
     "plantuml_profile", "plantuml_composite", "plantuml_communication",
     "plantuml_interaction", "plantuml_timing", "plantuml_archimate",
     "plantuml_specification", "plantuml_ditaa", "plantuml_dot", "plantuml_salt",
     "plantuml_json", "plantuml_yaml", "plantuml_network", "plantuml_wireframe"}

DiagramType == MermaidCoreTypes \cup C4Types \cup PlantumlSpecificTypes \cup {"unknown"}

FrameworkType == {"mermaid", "d2", "plantuml", "graphviz", "auto"}

OutputFormat == {"svg", "png", "pdf", "inline"}

\* The output_file values handed in, as characters: one per valid
\* extension, a foreign extension, two dots, no extension, a dot file and a
\* dotted directory.
OutputFiles ==
    {<<"a", ".", "d", "2">>,
     <<"a", ".", "m", "m", "d">>,
     <<"a", ".", "p", "u", "m", "l">>,
     <<"a", ".", "g", "v">>,
     <<"a", ".", "m", "d">>,
     <<"a", ".", "t", "x", "t">>,
     <<"a", ".", "d", "2", ".", "m", "d">>,
     <<"a">>,
     <<".", "d", "2">>,
     <<"b", ".", "d", "2", "/", "a">>}

\* The position of the last c in s, 0 when there is none (str.rfind + 1).
RECURSIVE RFind(_, _, _)
RFind(s, c, i) ==
    IF i = 0 THEN 0
    ELSE IF s[i] = c THEN i
    ELSE RFind(s, c, i - 1)

\* Path(v).name: what follows the last "/".
PathName(v) == SubSeq(v, RFind(v, "/", Len(v)) + 1, Len(v))

\* Path(v).suffix: the name from its last dot on, when that dot is neither
\* the first nor the last character of the name; else the empty string.
PathSuffix(v) ==
    LET name == PathName(v)
        i == RFind(name, ".", Len(name))
    IN IF 1 < i /\ i < Len(name) THEN SubSeq(name, i, Len(name)) ELSE <<>>

valid_extensions ==
    {<<".", "d", "2">>, <<".", "m", "m", "d">>, <<".", "p", "u", "m", "l">>,
     <<".", "g", "v">>, <<".", "m", "d">>}

\* The field validator of output_file: TRUE when it raises no ValueError.
validate_output_file_extension(v) == PathSuffix(v) \in valid_extensions

extension_to_framework(sfx) ==
    IF sfx = <<".", "d", "2">> THEN "d2"
    ELSE IF sfx = <<".", "m", "m", "d">> THEN "mermaid"
    ELSE IF sfx = <<".", "p", "u", "m", "l">> THEN "plantuml"
    ELSE IF sfx = <<".", "g", "v">> THEN "graphviz"
    ELSE IF sfx = <<".", "m", "d">> THEN "mermaid"
    ELSE None

type_mapping_d2 ==
    {"c4_context", "c4_container", "c4_component", "c4_deployment", "c4_landscape",
     "architecture"}

plantuml_types ==
    {"plantuml_usecase", "plantuml_activity", "plantuml_component",
     "plantuml_deployment", "plantuml_object", "plantuml_package",
     "plantuml_profile", "plantuml_composite", "plantuml_communication",
     "plantuml_interaction", "plantuml_timing", "plantuml_archimate",
     "plantuml_specification", "plantuml_ditaa", "plantuml_dot", "plantuml_salt",
     "plantuml_json", "plantuml_yaml", "plantuml_network", "plantuml_wireframe"}

\* Mutant: plantuml_types is not consulted.
get_default_framework_for_type_MappingOnly(diagram_type) ==
    IF diagram_type \in type_mapping_d2 THEN "d2" ELSE "mermaid"

\* _get_default_framework_for_type: every other entry of type_mapping, and
\* the default of its .get, is mermaid.
get_default_framework_for_type(diagram_type) ==
    IF diagram_type \in plantuml_types THEN "plantuml"
    ELSE IF diagram_type \in type_mapping_d2 THEN "d2"
    ELSE "mermaid"

\* Mutant: the category table is consulted before the extension.
auto_detect_framework_CategoryFirst(framework, output_file, type) ==
    IF framework = None
    THEN get_default_framework_for_type(type)
    ELSE framework

\* Mutant: a framework that was given is replaced by the category's own.
auto_detect_framework_NeverKeeps(framework, output_file, type) ==
    IF framework = None
    THEN IF extension_to_framework(PathSuffix(output_file)) # None
         THEN extension_to_framework(PathSuffix(output_file))
         ELSE get_default_framework_for_type(type)
    ELSE get_default_framework_for_type(type)

\* The first half of auto_detect_framework_and_formats: the framework after it.
auto_detect_framework(framework, output_file, type) ==
    IF framework = None
    THEN IF extension_to_framework(PathSuffix(output_file)) # None
         THEN extension_to_framework(PathSuffix(output_file))
         ELSE get_default_framework_for_type(type)
    ELSE framework

\* Mutant: plantuml defaults to png.
framework_defaults_PerFramework(framework) ==
    IF framework = "plantuml" THEN <<"png">> ELSE <<"svg">>

\* framework_defaults.get(self.framework, [OutputFormat.SVG])
framework_defaults(framework) == <<"svg">>

\* The second half: the output formats after it.
auto_detect_formats(output_formats, framework) ==
    IF output_formats = <<>> THEN framework_defaults(framework) ELSE output_formats

framework_capabilities ==
    [fw \in {"d2", "mermaid", "plantuml"} |->
        IF fw = "d2"
        THEN [types |-> {"c4_context", "c4_container", "c4_component",
                         "architecture", "flowchart"},
              formats |-> {"svg", "png", "pdf"}]
        ELSE IF fw = "mermaid"
        THEN [types |-> {"sequence", "flowchart", "erd", "gantt", "state", "class",
                         "pie", "journey", "quadrant", "requirement", "gitgraph",
                         "mindmap", "timeline", "sankey", "xy_chart", "block",
                         "packet", "architecture", "kanban", "c4_context",
                         "c4_container"},
              formats |-> {"svg", "png", "pdf"}]
        ELSE [types |-> {"sequence", "class", "state", "c4_context", "c4_container",
                         "plantuml_usecase", "plantuml_activity",
                         "plantuml_component", "plantuml_deployment",
                         "plantuml_object", "plantuml_package",
                         "plantuml_wireframe", "plantuml_network"},
              formats |-> {"svg", "png", "pdf"}]]

\* A ValueError of DiagramSpecification and what its message names.
SpecError(kind, framework, types, formats) ==
    [kind |-> kind, framework |-> framework, types |-> types, formats |-> formats]

\* The ValueError validate_framework_compatibility raises, if any: for the
\* type alone when the type is unsupported, else for the formats.
validate_framework_compatibility(type, framework, output_formats) ==
    IF framework \in DOMAIN framework_capabilities
    THEN LET capabilities == framework_capabilities[framework]
             unsupported_formats == Elems(output_formats) \ capabilities.formats
         IN IF type \notin capabilities.types
            THEN <<SpecError("type", framework, {type}, {})>>
            ELSE IF unsupported_formats # {}
            THEN <<SpecError("formats", framework, {}, unsupported_formats)>>
            ELSE <<>>
    ELSE <<>>

\* A raw DiagramSpecification as far as resolution reads it; id, agent,
\* title and instructions are taken as valid. output_formats may be left
\* out (Absent), and is then default_factory's empty list.

RawSpecs ==
    [given : {TRUE},
     type : DiagramType,
     framework : FrameworkType \cup {None},
     output_file : OutputFiles,
     output_formats : {Absent} \cup {Some(q) : q \in SeqsUpTo(OutputFormat, MaxFormats)}]

SpecModel(type, framework, output_file, output_formats) ==
    [type |-> type, framework |-> framework, output_file |-> output_file,
     output_formats |-> output_formats]

SpecOutcome(call, errors, model) ==
    [call |-> call, ok |-> errors = <<>>, errors |-> errors,
     val |-> IF errors = <<>> THEN model ELSE SpecModel(None, None, <<>>, <<>>)]

\* DiagramSpecification.model_validate: the field validators, then the two
\* model validators in the order the class declares them. Each assignment
\* inside the first one re-runs both (validate_assignment=True) on the
\* fields as they then are, which fails for the same inputs as the final run.
ValidateSpec(call, raw) ==
    LET formats == raw.output_formats.val
        framework == auto_detect_framework(raw.framework, raw.output_file, raw.type)
        output_formats == auto_detect_formats(formats, framework)
    IN IF ~validate_output_file_extension(raw.output_file)
       THEN SpecOutcome(call, <<SpecError("output_file", None, {}, {})>>,
                        SpecModel(None, None, <<>>, <<>>))
       ELSE SpecOutcome(call,
                validate_framework_compatibility(raw.type, framework, output_formats),
                SpecModel(raw.type, framework, raw.output_file, output_formats))

\* model_dump() of a validated DiagramSpecification (use_enum_values=True:
\* the enum fields are their string values).
SpecDump(m) ==
    [given |-> TRUE, type |-> m.type, framework |-> m.framework,
     output_file |-> m.output_file, output_formats |-> Some(m.output_formats)]

validate_spec ==
    /\ spec_out' = ValidateSpec("model_validate", spec_in)
    /\ UNCHANGED <<spec_in, spec_again, intent_in, intent_out, intent_again,
                 state_dir, kv, kvret, store, coord, plan, tools>>

\* The same input validated a second time.
validate_spec_again ==
    /\ spec_out.call # "none"
    /\ spec_again' = ValidateSpec("same_input", spec_in)
    /\ UNCHANGED <<spec_in, spec_out, intent_in, intent_out, intent_again,
                 state_dir, kv, kvret, store, coord, plan, tools>>

\* The serialized form of the validated job validated.
validate_spec_dump ==
    /\ spec_out.call # "none"
    /\ spec_out.ok
    /\ spec_again' = ValidateSpec("dump", SpecDump(spec_out.val))
    /\ UNCHANGED <<spec_in, spec_out, intent_in, intent_out, intent_again,
                 state_dir, kv, kvret, store, coord, plan, tools>>

InitDiagram ==
    /\ primary = [k \in Keys |-> NoFile]
    /\ backup = [k \in Keys |-> NoFile]
    /\ result = Called("init", "", RetNone)
    /\ prov = [k \in Keys |-> "none"]
    /\ orig = [k \in Keys |-> <<>>]
    /\ wlog = [k \in Keys |-> <<>>]
    /\ wbhist = [k \in Keys |-> "none"]
    /\ proc = [w \in Workers |-> IdleProc]
    /\ agents_working = <<>>
    /\ completion_order = <<>>
    /\ dependencies = <<>>
    /\ ready_ret = {}
    /\ recipe = NoRecipe
    /\ outcome = NotValidated
    /\ spec_in \in RawSpecs
    /\ spec_out = NoOutcome
    /\ spec_again = NoOutcome
    /\ intent_in = NoDocument
    /\ intent_out = NoOutcome
    /\ intent_again = NoOutcome
    /\ state_dir = EmptyDir
    /\ kv = [k \in {} |-> <<>>]
    /\ kvret = [op |-> "init", mgr |-> "", key |-> <<>>, ret |-> RetNone, was |-> FALSE]
    /\ InitTools

NextDiagram ==
    \/ validate_spec
    \/ validate_spec_again
    \/ validate_spec_dump

SpecDiagram == InitDiagram /\ [][NextDiagram]_vars

\* ------------------------------------------------- UserRecipe

\* instructions.diagrams is followed up to MaxRequests requests.
MaxRequests == 2

UpperChars ==
    <<"A", "B", "C", "D", "E", "F", "G", "H", "I", "J", "K", "L", "M",
      "N", "O", "P", "Q", "R", "S", "T", "U", "V", "W", "X", "Y", "Z">>

LowerChars ==
    <<"a", "b", "c", "d", "e", "f", "g", "h", "i", "j", "k", "l", "m",
      "n", "o", "p", "q", "r", "s", "t", "u", "v", "w", "x", "y", "z">>

IsUpper(c) == \E i \in 1..Len(UpperChars) : UpperChars[i] = c

IsLower(c) == \E i \in 1..Len(LowerChars) : LowerChars[i] = c

LowerChar(c) ==
    IF IsUpper(c) THEN LowerChars[CHOOSE i \in 1..Len(UpperChars) : UpperChars[i] = c]
    ELSE c

\* str.lower()
StrLower(s) == [i \in 1..Len(s) |-> LowerChar(s[i])]

\* str.replace(old, new) for one-character old and new
StrReplace(s, old, new) == [i \in 1..Len(s) |-> IF s[i] = old THEN new ELSE s[i]]

\* str.strip(), which str_strip_whitespace=True applies to every str field
\* before its validators run: white space off both ends.
RECURSIVE Strip(_)
Strip(s) ==
    IF s # <<>> /\ Head(s) \in {" ", NL} THEN Strip(Tail(s))
    ELSE IF s # <<>> /\ s[Len(s)] \in {" ", NL} THEN Strip(SubSeq(s, 1, Len(s) - 1))
    ELSE s

StripOpt(o) == IF o.some THEN Some(Strip(o.val)) ELSE Absent

\* sub in s
Contains(s, sub) ==
    \E i \in 1..(Len(s) - Len(sub) + 1) : SubSeq(s, i, i + Len(sub) - 1) = sub

\* re.match(r"^[a-z][a-z0-9_]*$", normalized)
MatchesTypePattern(s) ==
    /\ s # <<>>
    /\ IsLower(s[1])
    /\ \A i \in 1..Len(s) : IsLower(s[i]) \/ IsDigit(s[i]) \/ s[i] = "_"

\* re.match(r"^[a-zA-Z][a-zA-Z0-9_-]*$", v)
MatchesNamePattern(s) ==
    /\ s # <<>>
    /\ IsLower(s[1]) \/ IsUpper(s[1])
    /\ \A i \in 1..Len(s) :
          IsLower(s[i]) \/ IsUpper(s[i]) \/ IsDigit(s[i]) \/ s[i] \in {"_", "-"}

valid_frameworks ==
    {<<"d", "2">>, <<"m", "e", "r", "m", "a", "i", "d">>,
     <<"p", "l", "a", "n", "t", "u", "m", "l">>,
     <<"g", "r", "a", "p", "h", "v", "i", "z">>, <<"a", "u", "t", "o">>}

\* A validation error and the field it is located at; index is the place
\* in instructions.diagrams, 0 outside that list.
IntentError(loc, index) == [loc |-> loc, index |-> index]

\* DiagramRequest.validate_type_format: the normalized type.
validate_type_format(v) == StrReplace(StrLower(v), " ", "_")

\* Mutant: the case is swapped, not lowered.
validate_framework_preference_SwapCase(v) ==
    LET Upper(c) == UpperChars[CHOOSE i \in 1..Len(LowerChars) : LowerChars[i] = c]
    IN [i \in 1..Len(v) |->
           IF IsUpper(v[i]) THEN LowerChar(v[i])
           ELSE IF IsLower(v[i]) THEN Upper(v[i])
           ELSE v[i]]

\* DiagramRequest.validate_framework_preference: the value returned.
validate_framework_preference(v) == StrLower(v)

\* DiagramRequest(**r): the errors, and the instance when there is none.
ValidateRequest(r, index) ==
    LET type == Strip(r.type)
        pref == StripOpt(r.framework_preference)
    IN [errors |->
           (IF type = <<>> \/ ~MatchesTypePattern(validate_type_format(type))
            THEN {IntentError("instructions.diagrams.type", index)} ELSE {})
           \cup (IF pref.some /\ StrLower(pref.val) \notin valid_frameworks
                 THEN {IntentError("instructions.diagrams.framework_preference", index)}
                 ELSE {}),
        val |-> [type |-> validate_type_format(type),
                 description |-> StripOpt(r.description),
                 framework_preference |->
                     IF pref.some THEN Some(validate_framework_preference(pref.val))
                     ELSE Absent]]

\* key = f"{diagram.type}_{diagram.description or ''}"
RequestKey(diagram) ==
    diagram.type \o <<"_">>
    \o (IF diagram.description.some THEN diagram.description.val ELSE <<>>)

\* UserInstructions.validate_diagram_uniqueness: TRUE when the loop raises
\* "Duplicate diagram request".
RECURSIVE validate_diagram_uniqueness(_, _, _)
validate_diagram_uniqueness(v, i, seen_types) ==
    IF i > Len(v) THEN FALSE
    ELSE IF RequestKey(v[i]) \in seen_types THEN TRUE
    ELSE validate_diagram_uniqueness(v, i + 1, seen_types \cup {RequestKey(v[i])})

\* instructions.diagrams: every item, then min_length=1, then the
\* uniqueness validator when all of that passed.
ValidateDiagrams(raws) ==
    LET items == [i \in 1..Len(raws) |-> ValidateRequest(raws[i], i)]
        item_errors == UNION {items[i].errors : i \in 1..Len(raws)}
        v == [i \in 1..Len(raws) |-> items[i].val]
    IN [errors |->
           IF item_errors # {} THEN item_errors
           ELSE IF Len(raws) < 1 THEN {IntentError("instructions.diagrams", 0)}
           ELSE IF validate_diagram_uniqueness(v, 1, {})
                THEN {IntentError("instructions.diagrams.duplicate", 0)}
                ELSE {},
        val |-> v]

\* PRDContent.validate_file_path_exists: TRUE when it raises.
validate_file_path_exists(v) == Contains(v, <<".", ".">>) \/ PathSuffix(v) = <<>>

\* PRDContent.validate_sections_format on the stripped items: TRUE when it raises.
validate_sections_format(v) == \E i \in 1..Len(v) : Strip(v[i]) = <<>>

\* Mutant: a source counts as provided when it is not empty.
validate_content_source_Truthy(content, file_path) ==
    LET has_content == content.some /\ content.val # <<>>
        has_file == file_path.some /\ file_path.val # <<>>
    IN (~has_content /\ ~has_file) \/ (has_content /\ has_file)

\* PRDContent.validate_content_source: TRUE when it raises.
validate_content_source(content, file_path) ==
    LET has_content == content.some
        has_file == file_path.some
    IN (~has_content /\ ~has_file) \/ (has_content /\ has_file)

\* The texts of the documents handed in: names, a PRD text, paths, diagram
\* types, descriptions and framework preferences; and PRDFormat.MARKDOWN,
\* the default of format.
Txt ==
    [name |-> <<"R", "1">>,
     name_spaced |-> <<" ", "R", "1">>,
     name_digit |-> <<"1", "R">>,
     text |-> <<"x", " ">>,
     path_md |-> <<"r", ".", "m", "d">>,
     path_bare |-> <<"r">>,
     path_up |-> <<".", ".", "/", "r", ".", "m", "d">>,
     type_a |-> <<"a">>,
     type_a_b |-> <<"a", "_", "b">>,
     type_A_b |-> <<"A", " ", "b">>,
     desc_c |-> <<"c">>,
     desc_c_spaced |-> <<" ", "c">>,
     desc_b_c |-> <<"b", "_", "c">>,
     pref_D2 |-> <<"D", "2">>,
     pref_dot |-> <<"d", "o", "t">>,
     markdown |-> <<"m", "a", "r", "k", "d", "o", "w", "n">>]

\* PRDContent(**p): the field errors, else the model validator's.
ValidatePRD(p) ==
    LET content == StripOpt(p.content)
        file_path == StripOpt(p.file_path)
        sections ==
            IF p.sections.some
            THEN Some([i \in 1..Len(p.sections.val) |-> Strip(p.sections.val[i])])
            ELSE Absent
        field_errors ==
            (IF file_path.some /\ (file_path.val = <<>> \/ validate_file_path_exists(file_path.val))
             THEN {IntentError("prd.file_path", 0)} ELSE {})
            \cup (IF sections.some /\ validate_sections_format(sections.val)
                  THEN {IntentError("prd.sections", 0)} ELSE {})
    IN [errors |->
           IF field_errors # {} THEN field_errors
           ELSE IF validate_content_source(content, file_path)
                THEN {IntentError("prd", 0)}
                ELSE {},
        val |-> [content |-> content, file_path |-> file_path,
                 format |-> IF p.format.some THEN p.format ELSE Some(Txt.markdown),
                 sections |-> sections]]

IntentOutcome(call, errors, model) ==
    [call |-> call, ok |-> errors = {}, errors |-> errors,
     val |-> IF errors = {} THEN model
             ELSE [name |-> <<>>, prd |-> <<>>, diagrams |-> <<>>]]

\* UserRecipe.model_validate: every field, nested models included, with all
\* their errors collected. validate_recipe_completeness runs after them and
\* cannot fail once min_length=1 held.
ValidateIntent(call, raw) ==
    LET name == Strip(raw.name)
        prd == ValidatePRD(raw.prd)
        diagrams == ValidateDiagrams(raw.diagrams)
        errors ==
            (IF name = <<>> \/ ~MatchesNamePattern(name)
             THEN {IntentError("name", 0)} ELSE {})
            \cup prd.errors \cup diagrams.errors
    IN IntentOutcome(call, errors,
                     [name |-> name, prd |-> prd.val, diagrams |-> diagrams.val])

\* model_dump() of a validated UserRecipe: every field with its value, None
\* included, defaults materialized.
IntentDump(m) == [given |-> TRUE, name |-> m.name, prd |-> m.prd, diagrams |-> m.diagrams]

RawRequest(type, description, framework_preference) ==
    [type |-> type, description |-> description,
     framework_preference |-> framework_preference]

\* The raw documents handed in: names, PRDs and requests that exercise
\* the normalizations and the field checks, and, in a recipe that is valid
\* otherwise, requests that differ in type and description only.
RawIntents ==
    LET NormalizedRequests ==
            {RawRequest(t, d, f) :
                t \in {Txt.type_a, Txt.type_A_b},
                d \in {Absent, Some(Txt.desc_c_spaced)},
                f \in {Absent, Some(Txt.pref_D2), Some(Txt.pref_dot)}}
        KeyedRequests ==
            {RawRequest(t, d, Absent) :
                t \in {Txt.type_a, Txt.type_a_b, Txt.type_A_b},
                d \in {Absent, Some(<<>>), Some(Txt.desc_c), Some(Txt.desc_b_c)}}
        RawPRDs ==
            [content : {Absent, Some(<<>>), Some(Txt.text)},
             file_path : {Absent, Some(Txt.path_md), Some(Txt.path_bare), Some(Txt.path_up)},
             format : {Absent},
             sections : {Absent, Some(<<<<" ", "s">>>>), Some(<<<<" ">>>>)}]
    IN [given : {TRUE},
        name : {Txt.name, Txt.name_spaced, Txt.name_digit},
        prd : RawPRDs,
        diagrams : SeqsUpTo(NormalizedRequests, MaxRequests)]
       \cup
       [given : {TRUE},
        name : {Txt.name},
        prd : {[content |-> Some(Txt.text), file_path |-> Absent, format |-> Absent,
                sections |-> Absent]},
        diagrams : SeqsUpTo(KeyedRequests, MaxRequests)]

validate_intent ==
    /\ intent_out' = ValidateIntent("model_validate", intent_in)
    /\ UNCHANGED <<intent_in, intent_again, spec_in, spec_out, spec_again,
                 state_dir, kv, kvret, store, coord, plan, tools>>

\* UserRecipe.model_validate(d.model_dump()) of the validated recipe d.
validate_intent_dump ==
    /\ intent_out.call # "none"
    /\ intent_out.ok
    /\ intent_again' = ValidateIntent("dump", IntentDump(intent_out.val))
    /\ UNCHANGED <<intent_in, intent_out, spec_in, spec_out, spec_again,
                 state_dir, kv, kvret, store, coord, plan, tools>>

InitIntent ==
    /\ primary = [k \in Keys |-> NoFile]
    /\ backup = [k \in Keys |-> NoFile]
    /\ result = Called("init", "", RetNone)
    /\ prov = [k \in Keys |-> "none"]
    /\ orig = [k \in Keys |-> <<>>]
    /\ wlog = [k \in Keys |-> <<>>]
    /\ wbhist = [k \in Keys |-> "none"]
    /\ proc = [w \in Workers |-> IdleProc]
    /\ agents_working = <<>>
    /\ completion_order = <<>>
    /\ dependencies = <<>>
    /\ ready_ret = {}
    /\ recipe = NoRecipe
    /\ outcome = NotValidated
    /\ spec_in = NoDocument
    /\ spec_out = NoOutcome
    /\ spec_again = NoOutcome
    /\ intent_in \in RawIntents
    /\ intent_out = NoOutcome
    /\ intent_again = NoOutcome
    /\ state_dir = EmptyDir
    /\ kv = [k \in {} |-> <<>>]
    /\ kvret = [op |-> "init", mgr |-> "", key |-> <<>>, ret |-> RetNone, was |-> FALSE]
    /\ InitTools

NextIntent ==
    \/ validate_intent
    \/ validate_intent_dump

SpecIntent == InitIntent /\ [][NextIntent]_vars

\* ------------------------------------------------- the state directory

\* StateManager instances constructed on the same state_dir.
Managers == {"m1", "m2"}

\* The keys the calls name, as characters.
DirKeys == {<<"a">>, <<"a", ".", "b">>}

\* self.state_dir / f"{key}.json"
StateFile(key) == key \o <<".", "j", "s", "o", "n">>

\* self.state_dir / f"{key}.json.backup"
BackupFile(key) == key \o <<".", "j", "s", "o", "n", ".", "b", "a", "c", "k", "u", "p">>

\* Mutant: the pattern "*.json*".
GlobJson_AnyTail(name) == Contains(name, <<".", "j", "s", "o", "n">>)

\* A name that glob("*.json") yields: it ends in ".json".
GlobJson(name) ==
    /\ Len(name) >= Len(StateFile(<<>>))
    /\ SubSeq(name, Len(name) - Len(StateFile(<<>>)) + 1, Len(name)) = StateFile(<<>>)

\* Path.stem: the name without its suffix.
PathStem(name) == SubSeq(PathName(name), 1, Len(PathName(name)) - Len(PathSuffix(name)))

\* The file of that name as the calls find it.
FileAt(dir, name) ==
    IF name \in DOMAIN dir THEN [ex |-> TRUE, txt |-> dir[name]] ELSE NoFile

\* Path.write_text on a file of the directory.
DirWrite(dir, name, text) ==
    [n \in (DOMAIN dir) \cup {name} |-> IF n = name THEN text ELSE dir[n]]

\* Path.unlink
DirUnlink(dir, name) == [n \in (DOMAIN dir) \ {name} |-> dir[n]]

DirCalled(op, mgr, key, ret, was) ==
    [op |-> op, mgr |-> mgr, key |-> key, ret |-> ret, was |-> was]

write_state_in(mgr, key, data) ==
    /\ state_dir' = DirWrite(state_dir, StateFile(key), Dumps(data))
    /\ kv' = Put(kv, key, data)
    /\ kvret' = DirCalled("write_state", mgr, key, RetNone, key \in DOMAIN kv)
    /\ UNCHANGED <<spec_in, spec_out, spec_again, intent_in, intent_out, intent_again,
                 store, coord, plan, tools>>

read_state_in(mgr, key) ==
    /\ kvret' = DirCalled("read_state", mgr, key,
                          ReadResult(FileAt(state_dir, StateFile(key))),
                          key \in DOMAIN kv)
    /\ UNCHANGED <<state_dir, kv, spec_in, spec_out, spec_again,
                 intent_in, intent_out, intent_again, store, coord, plan, tools>>

list_states(mgr) ==
    /\ kvret' = DirCalled("list_states", mgr, <<>>,
                          [kind |-> "list",
                           val |-> {PathStem(f) : f \in {n \in DOMAIN state_dir : GlobJson(n)}}],
                          FALSE)
    /\ UNCHANGED <<state_dir, kv, spec_in, spec_out, spec_again,
                 intent_in, intent_out, intent_again, store, coord, plan, tools>>

delete_state_in(mgr, key) ==
    /\ IF StateFile(key) \in DOMAIN state_dir
       THEN /\ state_dir' = DirUnlink(state_dir, StateFile(key))
            /\ kvret' = DirCalled("delete_state", mgr, key, RetBool(TRUE), key \in DOMAIN kv)
       ELSE /\ state_dir' = state_dir
            /\ kvret' = DirCalled("delete_state", mgr, key, RetBool(FALSE), key \in DOMAIN kv)
    /\ kv' = [k \in (DOMAIN kv) \ {key} |-> kv[k]]
    /\ UNCHANGED <<spec_in, spec_out, spec_again, intent_in, intent_out, intent_again,
                 store, coord, plan, tools>>

InitDir ==
    /\ primary = [k \in Keys |-> NoFile]
    /\ backup = [k \in Keys |-> NoFile]
    /\ result = Called("init", "", RetNone)
    /\ prov = [k \in Keys |-> "none"]
    /\ orig = [k \in Keys |-> <<>>]
    /\ wlog = [k \in Keys |-> <<>>]
    /\ wbhist = [k \in Keys |-> "none"]
    /\ proc = [w \in Workers |-> IdleProc]
    /\ agents_working = <<>>
    /\ completion_order = <<>>
    /\ dependencies = <<>>
    /\ ready_ret = {}
    /\ recipe = NoRecipe
    /\ outcome = NotValidated
    /\ spec_in = NoDocument
    /\ spec_out = NoOutcome
    /\ spec_again = NoOutcome
    /\ intent_in = NoDocument
    /\ intent_out = NoOutcome
    /\ intent_again = NoOutcome
    \* empty, or holding the backup file that write_state_with_backup(k, d),
    \* a second write_state_with_backup(k, .) and delete_state(k) leave behind
    /\ state_dir \in {EmptyDir}
                     \cup {DirWrite(EmptyDir, BackupFile(k), Dumps(d)) : k \in DirKeys, d \in Blobs}
    /\ kv = [k \in {} |-> <<>>]
    /\ kvret = DirCalled("init", "", <<>>, RetNone, FALSE)
    /\ InitTools

NextDir ==
    \/ \E mgr \in Managers, key \in DirKeys, data \in Blobs : write_state_in(mgr, key, data)
    \/ \E mgr \in Managers, key \in DirKeys : read_state_in(mgr, key)
    \/ \E mgr \in Managers : list_states(mgr)
    \/ \E mgr \in Managers, key \in DirKeys : delete_state_in(mgr, key)

SpecDir == InitDir /\ [][NextDir]_vars

\* The directory with the maintenance calls added: write_state_with_backup,
\* recover_from_error and cleanup_old_states next to the calls above.

\* read_state as a value of the directory.
ReadIn(dir, key) == ReadResult(FileAt(dir, StateFile(key)))

\* recover_from_error as a value of the directory.
RecoverIn(dir, key) ==
    RecoverResult(FileAt(dir, StateFile(key)), FileAt(dir, BackupFile(key)))

\* list_states as a value of the directory.
ListIn(dir) == {PathStem(f) : f \in {n \in DOMAIN dir : GlobJson(n)}}

\* The files of the directory that end in ".json.backup".
BackupFiles(dir) ==
    {n \in DOMAIN dir :
        /\ Len(n) >= Len(BackupFile(<<>>))
        /\ SubSeq(n, Len(n) - Len(BackupFile(<<>>)) + 1, Len(n)) = BackupFile(<<>>)}

write_state_with_backup_in(mgr, key, data) ==
    /\ state_dir' =
           DirWrite(IF StateFile(key) \in DOMAIN state_dir
                    THEN DirWrite(state_dir, BackupFile(key), state_dir[StateFile(key)])
                    ELSE state_dir,
                    StateFile(key), Dumps(data))
    /\ kv' = Put(kv, key, data)
    /\ kvret' = DirCalled("write_state_with_backup", mgr, key, RetNone, key \in DOMAIN kv)
    /\ UNCHANGED <<spec_in, spec_out, spec_again, intent_in, intent_out, intent_again,
                 store, coord, plan, tools>>

recover_from_error_in(mgr, key) ==
    /\ kvret' = DirCalled("recover_from_error", mgr, key, RecoverIn(state_dir, key),
                          key \in DOMAIN kv)
    /\ UNCHANGED <<state_dir, kv, spec_in, spec_out, spec_again,
                 intent_in, intent_out, intent_again, store, coord, plan, tools>>

\* Mutant: the loop runs over glob("*.json*").
OldStateFiles_WithBackups(dir, old) == {n \in DOMAIN dir : GlobJson_AnyTail(n) /\ n \in old}

\* The files the loop unlinks: those glob("*.json") yields whose st_mtime is
\* below the cutoff (old: the files of that age).
OldStateFiles(dir, old) == {n \in DOMAIN dir : GlobJson(n) /\ n \in old}

\* cleanup_old_states; which files are older than the cutoff is the caller's
\* clock and max_age_days, so any set of them may be.
cleanup_old_states(mgr, old) ==
    /\ state_dir' = [n \in (DOMAIN state_dir) \ OldStateFiles(state_dir, old) |-> state_dir[n]]
    /\ kv' = [k \in {x \in DOMAIN kv : StateFile(x) \notin OldStateFiles(state_dir, old)} |-> kv[k]]
    /\ kvret' = DirCalled("cleanup_old_states", mgr, <<>>,
                          [kind |-> "count",
                           val |-> Cardinality(OldStateFiles(state_dir, old))],
                          FALSE)
    /\ UNCHANGED <<spec_in, spec_out, spec_again, intent_in, intent_out, intent_again,
                 store, coord, plan, tools>>

\* The dicts the callers of this directory write.
DirData == {d \in Blobs : \A x \in DOMAIN d : d[x] = 1}

NextDirClean ==
    \/ \E mgr \in Managers, key \in DirKeys, data \in DirData : write_state_in(mgr, key, data)
    \/ \E mgr \in Managers, key \in DirKeys, data \in DirData :
           write_state_with_backup_in(mgr, key, data)
    \/ \E mgr \in Managers, key \in DirKeys : read_state_in(mgr, key)
    \/ \E mgr \in Managers, key \in DirKeys : recover_from_error_in(mgr, key)
    \/ \E mgr \in Managers : list_states(mgr)
    \/ \E mgr \in Managers, key \in DirKeys : delete_state_in(mgr, key)
    \/ \E mgr \in Managers : \E old \in SUBSET DOMAIN state_dir : cleanup_old_states(mgr, old)

SpecDirClean == InitDir /\ [][NextDirClean]_vars

\* ------------------------------------------------- DiagramReference
\* The references of a ProcessedRecipe, by id, with the one field that
\* changes after construction.  T2DBaseModel is not frozen and validates
\* on assignment, so a reference is changed by assigning to its field.

valid_statuses == {"pending", "generated", "failed"}

\* What a caller may hand over as a status.
StatusInputs == valid_statuses \cup {"complete"}

\* TRUE when the validator returns v, FALSE when it raises ValueError.
validate_status(v) == v \in valid_statuses

RefCalled(op, id, status, raised) == [op |-> op, id |-> id, status |-> status, raised |-> raised]

\* DiagramReference(id=id, ..., status=status) added to the recipe's
\* references; status None is the keyword left out, which takes the
\* default without validating it.
new_reference(id, status) ==
    /\ id \notin DOMAIN diagram_refs
    /\ LET raised == status # None /\ ~validate_status(status)
           v == IF status = None THEN "pending" ELSE status
       IN /\ diagram_refs' = IF raised THEN diagram_refs ELSE Put(diagram_refs, id, v)
          /\ ref_ret' = RefCalled("new", id, status, raised)
    /\ UNCHANGED <<generated_at, gen_out, recipe_dir, tool_ret, calls, processing, upd,
                 store, coord, plan, docs>>

\* ref.status = v on a reference of the recipe: validate_assignment runs
\* validate_status on v and stores what it returns.
assign_status(id, v) ==
    /\ id \in DOMAIN diagram_refs
    /\ diagram_refs' = IF validate_status(v) THEN [diagram_refs EXCEPT ![id] = v]
                       ELSE diagram_refs
    /\ ref_ret' = RefCalled("assign", id, v, ~validate_status(v))
    /\ UNCHANGED <<generated_at, gen_out, recipe_dir, tool_ret, calls, processing, upd,
                 store, coord, plan, docs>>

NextRefs ==
    \/ \E id \in DiagramIds, status \in StatusInputs \cup {None} : new_reference(id, status)
    \/ \E id \in DiagramIds, v \in StatusInputs : assign_status(id, v)

SpecRefs == Init /\ [][NextRefs]_vars

\* ------------------------------------------------- generated_at
\* Time is whole hours from 0 to MaxTime.  A datetime is its wall-clock
\* reading with, when it is aware, the utcoffset of its tzinfo in hours.

MaxTime == 3

TzOffsets == {-1, 0, 1}

Naive(wall) == [wall |-> wall, aware |-> FALSE, off |-> 0]
Aware(wall, off) == [wall |-> wall, aware |-> TRUE, off |-> off]

\* The tails an ISO string ends with here: none, Z, an offset, or no
\* ISO format at all.
IsoTails ==
    {<<>>, <<"Z">>, <<"+", "0", "0", ":", "0", "0">>, <<"+", "0", "1", ":", "0", "0">>,
     <<"-", "0", "1", ":", "0", "0">>, <<"?">>}

\* generated_at as handed over: a datetime object, or a string made of a
\* date and time (read as wall) and a tail.
GeneratedAtInputs ==
    {[given |-> TRUE, kind |-> "datetime", val |-> Naive(t), tail |-> <<>>] : t \in 0..MaxTime}
    \cup {[given |-> TRUE, kind |-> "datetime", val |-> Aware(t, o), tail |-> <<>>] :
              t \in 0..MaxTime, o \in TzOffsets}
    \cup {[given |-> TRUE, kind |-> "str", val |-> Naive(t), tail |-> x] :
              t \in 0..MaxTime, x \in IsoTails}

\* v[:-1] + "+00:00" when v ends with Z.
ZToOffset(tail) ==
    IF Len(tail) > 0 /\ tail[Len(tail)] = "Z"
    THEN SubSeq(tail, 1, Len(tail) - 1) \o <<"+", "0", "0", ":", "0", "0">>
    ELSE tail

\* datetime.fromisoformat on the date and time wall followed by tail: no
\* tail gives a naive datetime, a tail +hh:mm or -hh:mm an aware one,
\* anything else raises ValueError.
fromisoformat(wall, tail) ==
    IF tail = <<>> THEN [ok |-> TRUE, val |-> Naive(wall)]
    ELSE IF /\ Len(tail) = 6 /\ tail[1] \in {"+", "-"} /\ tail[4] = ":"
            /\ \A i \in {2, 3, 5, 6} : IsDigit(tail[i])
         THEN LET hours == 10 * DigitVal(tail[2]) + DigitVal(tail[3])
              IN [ok |-> TRUE,
                  val |-> Aware(wall, IF tail[1] = "-" THEN 0 - hours ELSE hours)]
         ELSE [ok |-> FALSE, val |-> Naive(wall)]

\* datetime.now(tz) when the clock reads now_utc in UTC.
DatetimeNow(now_utc, off) == Aware(now_utc + off, off)

\* a > b of two aware datetimes: their UTC instants are compared.
Later(a, b) == a.wall - a.off > b.wall - b.off

GenOutcome(now_utc, error, val) ==
    [call |-> "model_validate", now |-> now_utc, ok |-> error = "none", error |-> error,
     val |-> val]

validate_generation_time_NotBefore(v, now_utc) ==
    LET parsed == IF v.kind = "str" THEN fromisoformat(v.val.wall, ZToOffset(v.tail))
                  ELSE [ok |-> TRUE, val |-> v.val]
        aware == IF parsed.val.aware THEN parsed.val ELSE Aware(parsed.val.wall, 0)
    IN IF ~parsed.ok THEN GenOutcome(now_utc, "format", parsed.val)
       ELSE IF ~Later(DatetimeNow(now_utc, aware.off), aware)
            THEN GenOutcome(now_utc, "future", aware)
            ELSE GenOutcome(now_utc, "none", aware)

\* ProcessedRecipe.validate_generation_time on v when the clock reads
\* now_utc: what it returns, or the ValueError it raises.
validate_generation_time(v, now_utc) ==
    LET parsed == IF v.kind = "str" THEN fromisoformat(v.val.wall, ZToOffset(v.tail))
                  ELSE [ok |-> TRUE, val |-> v.val]
        aware == IF parsed.val.aware THEN parsed.val ELSE Aware(parsed.val.wall, 0)
    IN IF ~parsed.ok THEN GenOutcome(now_utc, "format", parsed.val)
       ELSE IF Later(aware, DatetimeNow(now_utc, aware.off))
            THEN GenOutcome(now_utc, "future", aware)
            ELSE GenOutcome(now_utc, "none", aware)

\* A ProcessedRecipe validated with this generated_at, at some reading of
\* the clock.
validate_generated_at ==
    /\ \E now_utc \in 0..MaxTime : gen_out' = validate_generation_time(generated_at, now_utc)
    /\ UNCHANGED <<generated_at, diagram_refs, ref_ret, recipe_dir, tool_ret, calls,
                 processing, upd, store, coord, plan, docs>>

InitTime ==
    /\ InitBase
    /\ diagram_refs = NoRefs
    /\ ref_ret = NoRefCall
    /\ generated_at \in GeneratedAtInputs
    /\ gen_out = NoOutcome
    /\ recipe_dir = EmptyDir
    /\ tool_ret = NoResponse
    /\ calls = <<>>
    /\ processing = NoProcessing
    /\ upd = [w \in Workers |-> IdleUpdate]

NextTime == validate_generated_at

SpecTime == InitTime /\ [][NextTime]_vars

\* ------------------------------------------------- the user recipe tools
\* create_user_recipe and edit_user_recipe are coroutines without an await:
\* on one event loop each call runs from its first line to its return
\* before another call runs.

Tasks == {"t1", "t2"}

\* <output_dir>/<name>.yaml
RecipePath(output_dir, name) == output_dir \o <<"/">> \o name \o <<".", "y", "a", "m", "l">>

\* The directory the tools were registered with.
ToolRecipeDir == <<"r">>

ToolRequest(type) == RawRequest(type, Absent, Absent)

\* CreateRecipeParams instances: the name matches the pattern, exactly one
\* of prd_content and prd_file_path is truthy, diagrams has an item.
CreateRecipeParams ==
    [name : {Txt.name, <<"S">>},
     prd_content : {Absent},
     prd_file_path : {Some(Txt.path_md), Some(Txt.path_bare)},
     diagrams : {<<ToolRequest(Txt.type_a)>>},
     output_dir : {ToolRecipeDir}]
    \cup
    [name : {Txt.name, <<"S">>},
     prd_content : {Some(Txt.text)},
     prd_file_path : {Absent},
     diagrams : {<<ToolRequest(Txt.type_a)>>, <<ToolRequest(Txt.type_a), ToolRequest(Txt.type_a)>>},
     output_dir : {ToolRecipeDir}]
    \cup
    [name : {Txt.name},
     prd_content : {Some(Txt.text)},
     prd_file_path : {Absent},
     diagrams : {<<ToolRequest(Txt.type_a)>>},
     output_dir : {<<"o">>}]

\* EditRecipeParams instances: no field but name is required, and diagrams
\* has no minimum length.  The calls change one field, or nothing, or the
\* PRD content together with the PRD path.
EditRecipeParams ==
    {p \in [name : {Txt.name, <<"S">>},
            prd_content : {Absent, Some(<<"y">>)},
            prd_file_path : {Absent, Some(Txt.path_md), Some(Txt.path_bare)},
            diagrams : {Absent, Some(<<>>), Some(<<ToolRequest(Txt.type_a_b)>>)},
            validate_before_save : BOOLEAN] :
        \/ ~p.prd_content.some /\ ~p.prd_file_path.some
        \/ ~p.prd_content.some /\ ~p.diagrams.some
        \/ ~p.diagrams.some /\ p.prd_file_path \in {Absent, Some(Txt.path_md)}}

\* x if x else None
Truthy(x) == IF x.some /\ x.val # <<>> THEN x ELSE Absent

\* The response of a tool call, or raised when the call ended in an
\* exception; before is the directory the call found.
Response(tool, path, success, error_type, raised, before) ==
    [tool |-> tool, path |-> path, success |-> success, error_type |-> error_type,
     raised |-> raised, before |-> before]

\* A call issued and not yet run, and a call that returned.
Issued(params) == [done |-> FALSE, params |-> params, success |-> FALSE, error_type |-> "none"]
Returned(call, r) == [call EXCEPT !.done = TRUE, !.success = r.success, !.error_type = r.error_type]

\* PRDContent, UserInstructions and UserRecipe built from the parameters.
BuildRecipe(params) ==
    ValidateIntent("create",
        [given |-> TRUE, name |-> params.name,
         prd |-> [content |-> Truthy(params.prd_content),
                  file_path |-> Truthy(params.prd_file_path),
                  format |-> Some(Txt.markdown), sections |-> Absent],
         diagrams |-> params.diagrams])

CreateRecipe_Overwrites(params, dir) ==
    LET path == RecipePath(params.output_dir, params.name)
        built == BuildRecipe(params)
    IN IF ~built.ok
       THEN [dir |-> dir, ret |-> Response("create", path, FALSE, "validation", FALSE, dir)]
       ELSE [dir |-> DirWrite(dir, path, IntentDump(built.val)),
             ret |-> Response("create", path, TRUE, "none", FALSE, dir)]

\* The body of create_user_recipe on the directory dir: the directory it
\* leaves and the response it returns.
CreateRecipe(params, dir) ==
    LET path == RecipePath(params.output_dir, params.name)
        built == BuildRecipe(params)
    IN IF path \in DOMAIN dir
       THEN [dir |-> dir, ret |-> Response("create", path, FALSE, "duplicate", FALSE, dir)]
       ELSE IF ~built.ok
       THEN [dir |-> dir, ret |-> Response("create", path, FALSE, "validation", FALSE, dir)]
       ELSE [dir |-> DirWrite(dir, path, IntentDump(built.val)),
             ret |-> Response("create", path, TRUE, "none", FALSE, dir)]

\* One of the calls issued together runs.
create_user_recipe(t) ==
    /\ ~calls[t].done
    /\ LET out == CreateRecipe(calls[t].params, recipe_dir)
       IN /\ recipe_dir' = out.dir
          /\ tool_ret' = out.ret
          /\ calls' = [calls EXCEPT ![t] = Returned(calls[t], out.ret)]
    /\ UNCHANGED <<diagram_refs, ref_ret, generated_at, gen_out, processing, upd,
                 store, coord, plan, docs>>

\* The assignments edit_user_recipe makes to the loaded recipe (prd0 and
\* diagrams0 are its PRD and its diagrams), each validated as it is made:
\* whether one of them raised, and the fields after them.
EditAssigned(params, prd0, diagrams0) ==
    LET new_content == StripOpt(params.prd_content)
        content_raises ==
            params.prd_content.some /\ validate_content_source(new_content, prd0.file_path)
        prd1 == IF params.prd_content.some
                THEN [prd0 EXCEPT !.content = new_content, !.file_path = Absent]
                ELSE prd0
        new_path == StripOpt(params.prd_file_path)
        path_raises ==
            /\ params.prd_file_path.some
            /\ \/ new_path.val = <<>>
               \/ validate_file_path_exists(new_path.val)
               \/ validate_content_source(prd1.content, new_path)
        prd2 == IF params.prd_file_path.some
                THEN [prd1 EXCEPT !.file_path = new_path, !.content = Absent]
                ELSE prd1
        new_diagrams == ValidateDiagrams(params.diagrams.val)
    IN [raises |-> \/ content_raises
                  \/ path_raises
                  \/ (params.diagrams.some /\ new_diagrams.errors # {}),
        prd |-> prd2,
        diagrams |-> IF params.diagrams.some THEN new_diagrams.val ELSE diagrams0]

\* The end of edit_user_recipe: the edited recipe is validated when
\* validate_before_save asks for it, and written.
EditSave(params, dir, path, edited) ==
    IF params.validate_before_save /\ ~ValidateIntent("edit", IntentDump(edited)).ok
    THEN [dir |-> dir, ret |-> Response("edit", path, FALSE, "validation", FALSE, dir)]
    ELSE [dir |-> DirWrite(dir, path, IntentDump(edited)),
          ret |-> Response("edit", path, TRUE, "none", FALSE, dir)]

\* The assignments are made outside any try block: a ValidationError there
\* ends the call.
EditChecked(params, dir, path, name, assigned) ==
    IF assigned.raises
    THEN [dir |-> dir, ret |-> Response("edit", path, FALSE, "none", TRUE, dir)]
    ELSE EditSave(params, dir, path,
                  [name |-> name, prd |-> assigned.prd, diagrams |-> assigned.diagrams])

\* edit_user_recipe once the file was read and parsed into loaded.
EditLoaded(params, dir, path, loaded) ==
    IF ~loaded.ok
    THEN [dir |-> dir, ret |-> Response("edit", path, FALSE, "load", FALSE, dir)]
    ELSE EditChecked(params, dir, path, loaded.val.name,
                     EditAssigned(params, loaded.val.prd, loaded.val.diagrams))

\* The body of edit_user_recipe on the directory dir: the directory it
\* leaves and the response it returns.
EditRecipe(params, dir) ==
    IF RecipePath(ToolRecipeDir, params.name) \notin DOMAIN dir
    THEN [dir |-> dir,
          ret |-> Response("edit", RecipePath(ToolRecipeDir, params.name),
                           FALSE, "not_found", FALSE, dir)]
    ELSE EditLoaded(params, dir, RecipePath(ToolRecipeDir, params.name),
                    ValidateIntent("load", dir[RecipePath(ToolRecipeDir, params.name)]))

edit_user_recipe(params) ==
    /\ \A t \in Tasks : calls[t].done
    /\ \E out \in {EditRecipe(params, recipe_dir)} :
           /\ recipe_dir' = out.dir
           /\ tool_ret' = out.ret
    /\ UNCHANGED <<calls, diagram_refs, ref_ret, generated_at, gen_out, processing, upd,
                 store, coord, plan, docs>>

\* Two create_user_recipe calls are issued together on an empty directory;
\* edits follow once both returned.
InitRecipeTools ==
    /\ InitBase
    /\ diagram_refs = NoRefs
    /\ ref_ret = NoRefCall
    /\ generated_at = NoDocument
    /\ gen_out = NoOutcome
    /\ recipe_dir = EmptyDir
    /\ tool_ret = NoResponse
    /\ calls \in [Tasks -> {Issued(params) : params \in CreateRecipeParams}]
    /\ processing = NoProcessing
    /\ upd = [w \in Workers |-> IdleUpdate]

NextRecipeTools ==
    \/ \E t \in Tasks : create_user_recipe(t)
    \/ \E params \in EditRecipeParams : edit_user_recipe(params)

SpecRecipeTools == InitRecipeTools /\ [][NextRecipeTools]_vars

\* ------------------------------------- utils StateManager, step by step
\* The diagrams of one recipe's processing state, diagram id -> status, in
\* <recipe>.processing.json, and two workers in update_diagram_status.

\* load_processing_state: None (here the empty dict, which the callers
\* treat alike) when the file is missing, the backup's content when the
\* file does not parse and the backup does.
load_processing_state(files) ==
    IF ~files.state_file.ex THEN <<>>
    ELSE IF Loads(files.state_file.txt).ok THEN Loads(files.state_file.txt).val
    ELSE IF files.backup_file.ex /\ Loads(files.backup_file.txt).ok
         THEN Loads(files.backup_file.txt).val
         ELSE <<>>

\* get_diagram_status
get_diagram_status(files, diagram_id) ==
    IF diagram_id \in DOMAIN load_processing_state(files)
    THEN Some(load_processing_state(files)[diagram_id])
    ELSE Absent

call_update_diagram_status(w, diagram_id, status) ==
    /\ upd[w].pc = "idle"
    /\ upd' = [upd EXCEPT ![w] = [pc |-> "load", diagram_id |-> diagram_id,
                                  status |-> status, state |-> <<>>]]
    /\ UNCHANGED <<processing, diagram_refs, ref_ret, generated_at, gen_out, recipe_dir,
                 tool_ret, calls, store, coord, plan, docs>>

\* state = self.load_processing_state(...); state["diagrams"][diagram_id] = ...
ud_load(w) ==
    /\ upd[w].pc = "load"
    /\ upd' = [upd EXCEPT ![w].pc = "copy",
                          ![w].state = Put(load_processing_state(processing),
                                           upd[w].diagram_id, upd[w].status)]
    /\ UNCHANGED <<processing, diagram_refs, ref_ret, generated_at, gen_out, recipe_dir,
                 tool_ret, calls, store, coord, plan, docs>>

\* save_processing_state: if state_file.exists(): shutil.copy2(...)
ud_copy(w) ==
    /\ upd[w].pc = "copy"
    /\ processing' = IF processing.state_file.ex
                     THEN [processing EXCEPT !.backup_file = processing.state_file]
                     ELSE processing
    /\ upd' = [upd EXCEPT ![w].pc = "open"]
    /\ UNCHANGED <<diagram_refs, ref_ret, generated_at, gen_out, recipe_dir,
                 tool_ret, calls, store, coord, plan, docs>>

\* save_processing_state: open(state_file, "w")
ud_open(w) ==
    /\ upd[w].pc = "open"
    /\ processing' = [processing EXCEPT !.state_file = OpenTruncate]
    /\ upd' = [upd EXCEPT ![w].pc = "dump"]
    /\ UNCHANGED <<diagram_refs, ref_ret, generated_at, gen_out, recipe_dir,
                 tool_ret, calls, store, coord, plan, docs>>

\* save_processing_state: json.dump(state, f, indent=2), and the return
ud_dump(w) ==
    /\ upd[w].pc = "dump"
    /\ processing' = [processing EXCEPT !.state_file = WriteAtStart(@, Dumps(upd[w].state))]
    /\ upd' = [upd EXCEPT ![w].pc = "returned"]
    /\ UNCHANGED <<diagram_refs, ref_ret, generated_at, gen_out, recipe_dir,
                 tool_ret, calls, store, coord, plan, docs>>

\* Each worker makes one call; the steps of the two interleave.
NextUpdate ==
    \E w \in Workers :
        \/ \E diagram_id \in DictKeys, status \in 1..MaxVal :
               call_update_diagram_status(w, diagram_id, status)
        \/ ud_load(w)
        \/ ud_copy(w)
        \/ ud_open(w)
        \/ ud_dump(w)

SpecUpdate == Init /\ [][NextUpdate]_vars

\* ------------------------------------------------- claims on the store

\* The values json.loads gives for the prefixes of a text that parse.
PrefixParses(text) ==
    {Loads(SubSeq(text, 1, n)).val :
        n \in {m \in 0..Len(text) : Loads(SubSeq(text, 1, m)).ok}}

\* The largest i for which "\n".join(lines[:i]) parses; 0 when none does.
LongestParsingPrefix(lines) ==
    LET good == {i \in 1..Len(lines) : Loads(JoinLines(lines, i)).ok}
    IN IF good = {} THEN 0 ELSE CHOOSE i \in good : \A j \in good : j <= i

\* C1: when the last two changes of key k are completed
\* write_state_with_backup calls, read_state(k) gives the value of the last
\* one and k.json.backup parses to the value of the one before it; after the
\* only write_state_with_backup ever made on a key, which found no file,
\* read_state(k) gives its value and no backup file exists.
C1_StateDurability ==
    \A k \in Keys :
        /\ Len(wlog[k]) = 2 =>
              /\ ReadResult(primary[k]) = RetValue(wlog[k][2])
              /\ backup[k].ex
              /\ Loads(backup[k].txt) = [ok |-> TRUE, val |-> wlog[k][1]]
        /\ wbhist[k] = "first_fresh" => ~backup[k].ex
        /\ (wbhist[k] = "first_fresh" /\ Len(wlog[k]) = 1) =>
              ReadResult(primary[k]) = RetValue(wlog[k][1])

C1_Witness ==
    \E k \in Keys :
        /\ result = Called("write_state_with_backup", k, RetNone)
        /\ Len(wlog[k]) = 2
        /\ wlog[k][1] # wlog[k][2]

\* C2: recover_from_error(k) returns the primary's value whenever the
\* primary parses; else the backup's value whenever a backup exists and
\* parses, even when a line-prefix of the primary parses too; and only when
\* both fail the parse of the longest line-prefix of the primary that parses.
C2_FallbackOrder ==
    \A k \in Keys :
        LET pf == primary[k]
            bf == backup[k]
            r == RecoverResult(pf, bf)
            lines == SplitLines(pf.txt, 1, <<>>)
            m == LongestParsingPrefix(lines)
        IN pf.ex =>
            /\ Loads(pf.txt).ok => r = RetValue(Loads(pf.txt).val)
            /\ (~Loads(pf.txt).ok /\ bf.ex /\ Loads(bf.txt).ok) =>
                  r = RetValue(Loads(bf.txt).val)
            /\ (~Loads(pf.txt).ok /\ ~(bf.ex /\ Loads(bf.txt).ok) /\ m > 0) =>
                  r = RetValue(Loads(JoinLines(lines, m)).val)

C2_Witness ==
    \E k \in Keys :
        LET lines == SplitLines(primary[k].txt, 1, <<>>)
            m == LongestParsingPrefix(lines)
        IN /\ primary[k].ex /\ ~Loads(primary[k].txt).ok
           /\ m > 0
           /\ BackupUsable(backup[k])
           /\ Loads(backup[k].txt).val # Loads(JoinLines(lines, m)).val
           /\ result = Called("recover_from_error", k,
                              RetValue(Loads(backup[k].txt).val))

\* C3 as stated: for a file the store wrote and that was then cut at a byte
\* boundary, recover_from_error(k) does not raise and returns None or a
\* value that is the parse of a prefix of the original content.
C3_AsStated ==
    \A k \in Keys :
        prov[k] = "torn" =>
            LET r == RecoverResult(primary[k], backup[k])
            IN \/ r.kind = "none"
               \/ r.kind = "value" /\ r.val \in PrefixParses(orig[k])

\* C3 amended: for such a file recover_from_error(k) does not raise and
\* returns None, or the parse of the key's backup file, or a value that is
\* the parse of a prefix of the original content.
C3_RecoveryMonotonicity ==
    \A k \in Keys :
        prov[k] = "torn" =>
            LET r == RecoverResult(primary[k], backup[k])
            IN \/ r.kind = "none"
               \/ /\ r.kind = "value"
                  /\ backup[k].ex /\ Loads(backup[k].txt).ok
                  /\ r.val = Loads(backup[k].txt).val
               \/ r.kind = "value" /\ r.val \in PrefixParses(orig[k])

C3_Witness ==
    \E k \in Keys :
        /\ prov[k] = "torn"
        /\ result.op = "recover_from_error" /\ result.key = k
        /\ result.ret.kind = "value"
        /\ result.ret.val \notin PrefixParses(orig[k])

\* C4: when key k holds a value v1 that parses and one
\* write_state_with_backup(k, v2) dies at any point between or inside its
\* two file writes, recover_from_error(k) then returns v1 or v2: not None
\* and no other value.
C4_BoundedLoss ==
    \A w \in Workers :
        (/\ proc[w].pc = "crashed"
         /\ proc[w].op = "write_state_with_backup"
         /\ proc[w].pre.ok) =>
            LET r == RecoverResult(primary[proc[w].key], backup[proc[w].key])
            IN r.kind = "value" /\ r.val \in {proc[w].pre.val, proc[w].data}

C4_Witness ==
    \E w \in Workers :
        /\ proc[w].pc = "crashed"
        /\ proc[w].op = "write_state_with_backup"
        /\ proc[w].pre.ok
        /\ proc[w].pre.val # proc[w].data
        /\ ~Loads(primary[proc[w].key].txt).ok
        /\ Len(primary[proc[w].key].txt) > 0
        /\ RecoverResult(primary[proc[w].key], backup[proc[w].key])
              = RetValue(proc[w].pre.val)

\* C5: once the concurrent write_state calls of the workers on a key have
\* all finished, read_state(k) returns exactly the value one of them wrote:
\* no mixture and no file that does not parse.
C5_LastWriteWins ==
    \A k \in Keys :
        LET writers == {w \in Workers : proc[w].op = "write_state" /\ proc[w].key = k}
        IN (writers # {} /\ \A w \in Workers : proc[w].pc = "idle") =>
              ReadResult(primary[k]) \in {RetValue(proc[w].data) : w \in writers}

\* --------------------------------------- claims on the coordination

\* The agent ids listed as dependencies of an agent; none when it has no entry.
ListedDeps(a) == IF a \in DOMAIN dependencies THEN Elems(dependencies[a]) ELSE {}

\* C6: an agent id is in get_ready_agents() if and only if it is registered
\* with status "pending" and every agent id listed in its dependencies is
\* registered with status "complete".
C6_Readiness ==
    \A a \in Agents :
        a \in ReadyAgents <=>
            /\ a \in DOMAIN agents_working
            /\ agents_working[a] = "pending"
            /\ \A d \in ListedDeps(a) :
                  d \in DOMAIN agents_working /\ agents_working[d] = "complete"

C6_Witness ==
    \E a, b \in Agents :
        /\ ready_ret = ReadyAgents
        /\ a \in ready_ret
        /\ ListedDeps(a) = {b}
        /\ agents_working[b] = "complete"

\* ------------------------------------------ claims on ProcessedRecipe

SpecIds == Elems(recipe.specs)
RefIds == Elems(recipe.refs)

\* The input passes the field validation, so the model validators run.
FieldsOK == TooShort(recipe) = <<>>

Reported == {outcome.errors[i] : i \in 1..Len(outcome.errors)}

InvalidRefs(f) == f.refs \ SpecIds

SpecIdsDistinct ==
    \A i, j \in 1..Len(recipe.specs) : recipe.specs[i] = recipe.specs[j] => i = j

FileIdsDistinct ==
    \A i, j \in 1..Len(recipe.files) : recipe.files[i].id = recipe.files[j].id => i = j

C8_ReferenceSubset ==
    outcome.call = "model_validate" =>
        /\ outcome.ok =>
              \A i \in 1..Len(recipe.files) : recipe.files[i].refs \subseteq SpecIds
        /\ FieldsOK =>
              \A i \in 1..Len(recipe.files) :
                  InvalidRefs(recipe.files[i]) # {} =>
                      /\ ~outcome.ok
                      /\ Cardinality({e \in Reported :
                            /\ e.kind = "content_refs"
                            /\ e.loc = recipe.files[i].path
                            /\ e.invalid = InvalidRefs(recipe.files[i])}) = 1

\* C9: one validation of a recipe that violates several collection-level
\* checks at once reports every one of them: the spec/ref id mismatch and
\* each content file with an invalid reference.
C9_ErrorAccumulation ==
    (outcome.call = "model_validate" /\ FieldsOK) =>
        /\ SpecIds # RefIds => \E e \in Reported : e.kind = "consistency"
        /\ \A i \in 1..Len(recipe.files) :
              InvalidRefs(recipe.files[i]) # {} =>
                  \E e \in Reported :
                      e.kind = "content_refs" /\ e.loc = recipe.files[i].path

\* C10: every recipe that validates has pairwise distinct ids within
\* diagram_specs and pairwise distinct ids within content_files.
C10_IdentifierUniqueness ==
    (outcome.call = "model_validate" /\ outcome.ok) =>
        /\ SpecIdsDistinct
        /\ FileIdsDistinct

\* ------------------------------------ claims on DiagramSpecification

\* The validation of spec_in has been made and passed the field validators.
SpecResolved == spec_out.call # "none" /\ validate_output_file_extension(spec_in.output_file)

KnownExtension(sfx) ==
    sfx \in {<<".", "d", "2">>, <<".", "m", "m", "d">>, <<".", "p", "u", "m", "l">>,
             <<".", "g", "v">>, <<".", "m", "d">>}

FrameworkByExtension(sfx) ==
    CASE sfx = <<".", "d", "2">> -> "d2"
      [] sfx = <<".", "m", "m", "d">> -> "mermaid"
      [] sfx = <<".", "p", "u", "m", "l">> -> "plantuml"
      [] sfx = <<".", "g", "v">> -> "graphviz"
      [] sfx = <<".", "m", "d">> -> "mermaid"

FrameworkByCategory(t) ==
    IF t \in C4Types \cup {"architecture"} THEN "d2"
    ELSE IF t \in PlantumlSpecificTypes THEN "plantuml"
    ELSE "mermaid"

\* C11: with no framework given, a validated DiagramSpecification carries
\* the framework of its output_file extension when the extension is one of
\* .d2, .mmd, .puml, .gv, .md, and only otherwise that of the category table
\* (architecture and C4 -> d2, plantuml_* -> plantuml, the rest -> mermaid);
\* a framework that was given is the framework it carries.
C11_AutoResolution ==
    /\ get_default_framework_for_type(spec_in.type) = FrameworkByCategory(spec_in.type)
    /\ (spec_out.call # "none" /\ spec_out.ok) =>
          spec_out.val.framework =
              IF spec_in.framework # None THEN spec_in.framework
              ELSE IF KnownExtension(PathSuffix(spec_in.output_file))
                   THEN FrameworkByExtension(PathSuffix(spec_in.output_file))
                   ELSE FrameworkByCategory(spec_in.type)

C11_Witness ==
    /\ spec_out.call # "none" /\ spec_out.ok
    /\ spec_in.framework = None
    /\ spec_in.type = "architecture"
    /\ spec_in.output_file = <<"a", ".", "m", "m", "d">>
    /\ spec_out.val.framework = "mermaid"

\* What a framework supports; a framework the matrix does not list supports
\* nothing.
Supported(fw) ==
    IF fw \in DOMAIN framework_capabilities THEN framework_capabilities[fw]
    ELSE [types |-> {}, formats |-> {}]

ChosenFramework == auto_detect_framework(spec_in.framework, spec_in.output_file, spec_in.type)

RequestedFormats == Elems(spec_in.output_formats.val)

UnsupportedTypes == {spec_in.type} \ Supported(ChosenFramework).types

UnsupportedFormats == RequestedFormats \ Supported(ChosenFramework).formats

NamedTypes == UNION {spec_out.errors[i].types : i \in 1..Len(spec_out.errors)}

NamedFormats == UNION {spec_out.errors[i].formats : i \in 1..Len(spec_out.errors)}

\* C12: once the framework is chosen, validation succeeds exactly when the
\* framework's supported set holds the category and every requested format,
\* and a failure names every unsupported category and every unsupported
\* format of the job.
C12_CompatibilityCheck ==
    SpecResolved =>
        /\ spec_out.ok <=> (UnsupportedTypes = {} /\ UnsupportedFormats = {})
        /\ ~spec_out.ok => (NamedTypes = UnsupportedTypes /\ NamedFormats = UnsupportedFormats)

\* The categories in no framework's supported set.
UnsupportedCategories ==
    DiagramType \ UNION {framework_capabilities[fw].types : fw \in DOMAIN framework_capabilities}

\* C13: a DiagramSpecification whose category no framework supports fails
\* validation, whatever the framework and the extension.
C13_UnsupportedCategoryRejected ==
    (spec_out.call # "none" /\ spec_in.type \in UnsupportedCategories) => ~spec_out.ok

\* C14: a validated DiagramSpecification has at least one output format:
\* exactly [svg] when output_formats was omitted or empty, the list that was
\* given otherwise.
C14_FormatNormalization ==
    (spec_out.call # "none" /\ spec_out.ok) =>
        /\ Len(spec_out.val.output_formats) >= 1
        /\ spec_out.val.output_formats =
              IF spec_in.output_formats.val = <<>> THEN <<"svg">>
              ELSE spec_in.output_formats.val

C14_Witness ==
    /\ spec_out.call # "none" /\ spec_out.ok
    /\ ~spec_in.output_formats.some
    /\ spec_out.val.framework = "plantuml"
    /\ spec_out.val.output_formats = <<"svg">>

ResolvedPair(o) == <<o.val.framework, o.val.output_formats>>

\* C15: a second validation of the same input gives the same outcome and
\* the same (framework, output_formats) pair, and validating the dump of a
\* validated job succeeds with that pair again.
C15_ResolutionDeterminism ==
    /\ spec_again.call = "same_input" =>
          /\ spec_again.ok = spec_out.ok
          /\ ResolvedPair(spec_again) = ResolvedPair(spec_out)
    /\ spec_again.call = "dump" =>
          /\ spec_again.ok
          /\ ResolvedPair(spec_again) = ResolvedPair(spec_out)

C15_Witness ==
    /\ spec_again.call = "dump" /\ spec_again.ok
    /\ spec_in.framework = None
    /\ ~spec_in.output_formats.some
    /\ spec_in.type = "architecture"
    /\ spec_in.output_file = <<"a", ".", "m", "m", "d">>
    /\ ResolvedPair(spec_again) = <<"mermaid", <<"svg">>>>

\* --------------------------------------------- claims on UserRecipe

\* C16: for every valid UserRecipe d, validating d.model_dump() succeeds
\* and gives a recipe equal to d field by field.
C16_IntentRoundTrip ==
    intent_again.call = "dump" =>
        /\ intent_again.ok
        /\ intent_again.val.name = intent_out.val.name
        /\ intent_again.val.prd = intent_out.val.prd
        /\ intent_again.val.diagrams = intent_out.val.diagrams

C16_Witness ==
    /\ intent_again.call = "dump" /\ intent_again.ok
    /\ intent_in.name = Txt.name_spaced
    /\ intent_in.prd.sections = Some(<<<<" ", "s">>>>)
    /\ Len(intent_in.diagrams) = 2
    /\ intent_in.diagrams[1] = RawRequest(Txt.type_A_b, Some(Txt.desc_c_spaced), Some(Txt.pref_D2))
    /\ intent_again.val.diagrams[1] =
          RawRequest(Txt.type_a_b, Some(Txt.desc_c), Some(<<"d", "2">>))

\* C17: a PRDContent with both content and file_path, or with neither,
\* fails validation; a validated UserRecipe has exactly one of them set.
C17_PRDExclusivity ==
    intent_out.call # "none" =>
        /\ (intent_in.prd.content.some = intent_in.prd.file_path.some) => ~intent_out.ok
        /\ intent_out.ok =>
              intent_out.val.prd.content.some # intent_out.val.prd.file_path.some

C17_Witness ==
    /\ intent_out.call # "none"
    /\ intent_in.prd.content = Some(<<>>)
    /\ intent_in.prd.file_path = Some(Txt.path_md)
    /\ intent_out.errors = {IntentError("prd", 0)}

\* The (normalized type, description) pair of a request, a missing
\* description taken as empty.
RequestPair(r) ==
    LET d == ValidateRequest(r, 0).val
    IN <<d.type, IF d.description.some THEN d.description.val ELSE <<>>>>

\* Everything but the uniqueness of the requests is in order.
RequestsWellFormed ==
    /\ intent_out.call # "none"
    /\ Len(intent_in.diagrams) >= 1
    /\ intent_out.errors \subseteq {IntentError("instructions.diagrams.duplicate", 0)}

\* C18: a diagrams list is rejected as holding a duplicate exactly when two
\* of its requests have the same (normalized type, description) pair, and
\* is accepted when all its requests differ in type or in description.
C18_DuplicateDetection ==
    RequestsWellFormed =>
        (~intent_out.ok <=>
            \E i, j \in 1..Len(intent_in.diagrams) :
                i # j /\ RequestPair(intent_in.diagrams[i]) = RequestPair(intent_in.diagrams[j]))

\* ------------------------------------- claims on the state directory

\* What the map says a read of key gives.
MapRead(key) == IF key \in DOMAIN kv THEN RetValue(kv[key]) ELSE RetNone

\* C19: through any StateManager instances on one state directory, and
\* after any sequence of write_state, delete_state, read_state and
\* list_states calls, reading a key gives the value of its last write_state
\* not followed by a delete_state, and None otherwise; delete_state returns
\* True exactly when the key was present; list_states returns exactly the
\* present keys; a call on one key leaves what the others read as it was.
C19_KeyValueRefinement ==
    /\ \A key \in DirKeys : ReadResult(FileAt(state_dir, StateFile(key))) = MapRead(key)
    /\ kvret.op = "read_state" => kvret.ret = MapRead(kvret.key)
    /\ kvret.op = "delete_state" => kvret.ret = RetBool(kvret.was)
    /\ kvret.op = "list_states" => kvret.ret.val = DOMAIN kv

C19_Witness ==
    /\ kvret.op = "list_states"
    /\ kvret.mgr = "m2"
    /\ BackupFile(<<"a">>) \in DOMAIN state_dir
    /\ DOMAIN kv = {<<"a", ".", "b">>}
    /\ kvret.ret.val = {<<"a", ".", "b">>}

\* ------------------------------- claims on reading versus recovering

\* Nothing of key k can be recovered: no primary, or a primary that does
\* not parse with no backup that parses and no line-prefix that parses.
Unrecoverable(k) ==
    \/ ~primary[k].ex
    \/ /\ ~Loads(primary[k].txt).ok
       /\ ~(backup[k].ex /\ Loads(backup[k].txt).ok)
       /\ LongestParsingPrefix(SplitLines(primary[k].txt, 1, <<>>)) = 0

\* C20: read_state(k) on an existing file that does not parse raises the
\* parse error; recover_from_error(k) returns None, raises nothing and
\* leaves the primary and the backup file as they are, when the primary is
\* missing or nothing of it can be recovered.
C20_SurfacingVersusRecovery ==
    [][\A k \in Keys :
          /\ (read_state(k) /\ primary[k].ex /\ ~Loads(primary[k].txt).ok) =>
                result'.ret = RetRaise
          /\ (recover_from_error(k) /\ Unrecoverable(k)) =>
                /\ result'.ret = RetNone
                /\ primary' = primary
                /\ backup' = backup]_vars

C20_Witness ==
    \E k \in Keys :
        /\ result = Called("recover_from_error", k, RetNone)
        /\ primary[k].ex /\ ~Loads(primary[k].txt).ok
        /\ backup[k].ex /\ ~Loads(backup[k].txt).ok
        /\ Unrecoverable(k)

\* ------------------------------------- claims on DiagramReference

\* C21: every reference's status is one of pending, generated, failed; a
\* reference built without a status starts as pending; and the only changes
\* of a reference's status are pending -> generated and pending -> failed.
C21_StatusLifecycle ==
    /\ [](\A d \in DOMAIN diagram_refs : diagram_refs[d] \in {"pending", "generated", "failed"})
    /\ []((ref_ret.op = "new" /\ ref_ret.status = None) => diagram_refs[ref_ret.id] = "pending")
    /\ [][\A d \in DOMAIN diagram_refs :
             diagram_refs'[d] # diagram_refs[d]
                 => /\ diagram_refs[d] = "pending"
                    /\ diagram_refs'[d] \in {"generated", "failed"}]_vars

\* --------------------------------------------- claims on generated_at

\* The utcoffset a generated_at is given with, as a set: empty when it has
\* no timezone information.
GivenOffsets ==
    IF generated_at.kind = "datetime"
    THEN IF generated_at.val.aware THEN {generated_at.val.off} ELSE {}
    ELSE IF generated_at.tail \in {<<"Z">>, <<"+", "0", "0", ":", "0", "0">>} THEN {0}
    ELSE IF generated_at.tail = <<"+", "0", "1", ":", "0", "0">> THEN {1}
    ELSE IF generated_at.tail = <<"-", "0", "1", ":", "0", "0">> THEN {-1}
    ELSE {}

IsTimestamp == generated_at.kind = "datetime" \/ generated_at.tail # <<"?">>

\* The instant a generated_at denotes, in UTC, when one without timezone
\* information is read as UTC.
InstantUTC == generated_at.val.wall - (IF GivenOffsets = {} THEN 0 ELSE CHOOSE o \in GivenOffsets : TRUE)

\* C22: validation rejects generated_at exactly when it is strictly later
\* than the current time, a timestamp without timezone information being
\* read as UTC; the validated value carries timezone information and is the
\* same wall-clock reading.
C22_TemporalSanity ==
    (gen_out.call # "none" /\ IsTimestamp)
        => /\ gen_out.ok <=> ~(InstantUTC > gen_out.now)
           /\ gen_out.ok
                  => /\ gen_out.val.aware
                     /\ gen_out.val.wall = generated_at.val.wall
                     /\ gen_out.val.wall - gen_out.val.off = InstantUTC

\* a timestamp without timezone information, equal to now, is accepted
C22_Witness ==
    /\ gen_out.call # "none"
    /\ IsTimestamp
    /\ GivenOffsets = {}
    /\ InstantUTC = gen_out.now
    /\ gen_out.ok

\* ------------------------------------- claims on the user recipe tools

TargetOf(t) == RecipePath(calls[t].params.output_dir, calls[t].params.name)

\* The calls issued together all returned, and nothing ran after them.
BatchReturned == tool_ret.tool = "create" /\ \A t \in Tasks : calls[t].done

C30_EditAllOrNothing ==
    tool_ret.tool = "edit"
        => /\ ~tool_ret.raised
           /\ tool_ret.success
                  => /\ ValidateIntent("check", recipe_dir[tool_ret.path]).ok
                     /\ recipe_dir[tool_ret.path].prd.content.some
                            # recipe_dir[tool_ret.path].prd.file_path.some
                     /\ Len(recipe_dir[tool_ret.path].diagrams) >= 1
           /\ ~tool_ret.success => recipe_dir = tool_ret.before

\* ------------------------------------- claims on utils StateManager

\* C24: when two workers each called update_diagram_status for distinct
\* diagram ids of one recipe and both calls returned, get_diagram_status
\* reports for each id the status its worker wrote.
C24_NoLostStatusUpdate ==
    (/\ \A w \in Workers : upd[w].pc = "returned"
     /\ upd["w1"].diagram_id # upd["w2"].diagram_id)
        => \A w \in Workers :
               /\ get_diagram_status(processing, upd[w].diagram_id).some
               /\ get_diagram_status(processing, upd[w].diagram_id).val = upd[w].status

\* ---------------------------- claims on the coordination, scheduled

\* The position of an agent's first entry in completion_order, 0 if none.
CompletedAt(a) ==
    IF a \in Elems(completion_order)
    THEN CHOOSE i \in 1..Len(completion_order) :
             completion_order[i] = a /\ \A j \in 1..(i - 1) : completion_order[j] # a
    ELSE 0

\* C25: with the dependencies fixed before any agent starts, agents started
\* only while ready and then marked complete: every agent in
\* completion_order comes after all the agents its dependencies list, and
\* no agent is complete while one of its dependencies is not.
C25_DependencyOrder ==
    /\ \A i \in 1..Len(completion_order) :
           \A d \in ListedDeps(completion_order[i]) :
               CompletedAt(d) # 0 /\ CompletedAt(d) < i
    /\ \A a \in DOMAIN agents_working :
           agents_working[a] = "complete"
               => \A d \in ListedDeps(a) :
                      d \in DOMAIN agents_working /\ agents_working[d] = "complete"

C25_Witness ==
    /\ completion_order = <<"a2", "a1">>
    /\ ListedDeps("a1") = {"a2"}
    /\ agents_working["a1"] = "complete"

RECURSIVE ReachableDeps(_, _)
ReachableDeps(a, n) ==
    IF n = 0 THEN {}
    ELSE ListedDeps(a) \cup UNION {ReachableDeps(d, n - 1) : d \in ListedDeps(a)}

DepsAcyclic == \A a \in Agents : a \notin ReachableDeps(a, Cardinality(Agents))

DepsRegistered ==
    \A a \in DOMAIN dependencies : ListedDeps(a) \subseteq DOMAIN agents_working

\* C26: when the dependency lists are acyclic and name only registered
\* agents, and every ready agent is eventually started and marked complete,
\* is_all_complete() eventually is true and stays true.
C26_CoordinationProgress == (DepsAcyclic /\ DepsRegistered) => <>[]is_all_complete

C26_Witness ==
    /\ DepsAcyclic
    /\ DepsRegistered
    /\ ListedDeps("a2") = {"a1"}
    /\ completion_order = <<"a1", "a2">>
    /\ is_all_complete

\* ------------------------------------------- claims on the backup file

\* C27: a backup file that parses before a write_state_with_backup call
\* still parses after it, so whenever a backup exists at least one of the
\* primary and the backup parses.
C27_BackupNeverDegraded ==
    /\ [][\A k \in Keys :
             ((\E d \in Blobs : write_state_with_backup(k, d)) /\ BackupUsable(backup[k]))
                 => BackupUsable(backup'[k])]_vars
    /\ [](\A k \in Keys :
             backup[k].ex => (ParseOf(primary[k]).ok \/ BackupUsable(backup[k])))

\* ------------------------------- claims on what deleting and cleaning leave

\* C28: delete_state and cleanup_old_states remove only primary <key>.json
\* files: every <key>.json.backup file of the directory is there afterwards
\* with the text it had; and after delete_state(k) on a key that has a
\* backup, read_state(k) and recover_from_error(k) both return None and k is
\* not among the keys list_states gives.
C28_DeleteAndCleanupFrame ==
    /\ [][kvret'.op \in {"delete_state", "cleanup_old_states"} =>
              /\ BackupFiles(state_dir') = BackupFiles(state_dir)
              /\ \A n \in BackupFiles(state_dir) : state_dir'[n] = state_dir[n]
              /\ \A n \in DOMAIN state_dir' : n \in DOMAIN state_dir /\ state_dir'[n] = state_dir[n]
              /\ \A n \in (DOMAIN state_dir) \ (DOMAIN state_dir') : GlobJson(n)]_vars
    /\ []((kvret.op = "delete_state" /\ BackupFile(kvret.key) \in DOMAIN state_dir) =>
              /\ ReadIn(state_dir, kvret.key) = RetNone
              /\ RecoverIn(state_dir, kvret.key) = RetNone
              /\ kvret.key \notin ListIn(state_dir))

\* delete_state removed the primary file of a key whose backup holds an
\* earlier value, another key's file still being there.
C28_Witness ==
    /\ kvret.op = "delete_state"
    /\ kvret.ret = RetBool(TRUE)
    /\ kvret.key = <<"a">>
    /\ BackupFile(<<"a">>) \in DOMAIN state_dir
    /\ Loads(state_dir[BackupFile(<<"a">>)]).ok
    /\ StateFile(<<"a", ".", "b">>) \in DOMAIN state_dir

\* ------------------------------- claims on the preferred-framework table

\* The categories in some framework's supported set.
SupportedCategories == DiagramType \ UnsupportedCategories

\* model_validate ran on a job without framework: the step that calls
\* _get_default_framework_for_type(self.type), as the default handed to
\* extension_to_framework.get.
TableConsulted == spec_out.call # "none" /\ spec_in.framework = None

\* C29: for every category that some framework (d2, mermaid, plantuml)
\* supports, the framework _get_default_framework_for_type returns for that
\* category has the category in its own supported set; in particular for
\* the category of every job the table is consulted for.
C29_PreferredFrameworkSupported ==
    /\ \A t \in SupportedCategories :
           t \in Supported(get_default_framework_for_type(t)).types
    /\ (TableConsulted /\ spec_in.type \in SupportedCategories) =>
           spec_in.type \in Supported(get_default_framework_for_type(spec_in.type)).types

\* The table consulted for a category that only plantuml supports.
C29_Witness ==
    /\ TableConsulted
    /\ spec_in.type = "plantuml_usecase"
    /\ spec_in.type \in SupportedCategories
    /\ spec_in.type \notin Supported("mermaid").types \cup Supported("d2").types
    /\ get_default_framework_for_type(spec_in.type) = "plantuml"

====
